---- MODULE Spec2Model ----
(***************************************************************************)
(* A model of the ETL pipeline of auraverse-hackathon: the schema registry *)
(* (etl/schema_registry.py, etl/schema_infer.py), the upload handler       *)
(* (app/api/upload.py), the storage decision and DDL generation            *)
(* (etl/schema_generator.py) and the fragment extractor (etl/parser.py).   *)
(*                                                                         *)
(* Text is modelled as a sequence of one-character strings, so that the    *)
(* character-level conversions (strip, lower, regex substitution, line     *)
(* splitting) are computed and not assumed.                                *)
(***************************************************************************)
EXTENDS Integers, Sequences, FiniteSets, TLC

VARIABLES
    logical,    \* store/schemas/<dir>/logical.json : <<>> (absent or unreadable) or <<doc>>
    instances,  \* store/schemas/<dir>/<generated_at>__<id>.json : sequence of readable instance docs
    clock,      \* the value the next _nowz() returns
    hist,       \* history: per directory, one summary per finished evolve_schema call
    last,       \* the value returned by the latest evolve_schema call (<<>> before the first)
    iofails,    \* history: number of calls so far in which a write was made to fail
    arg,        \* the arguments of a call of one of the pure functions
    ret,        \* <<>>, or <<r>> with r the value that call returned
    up,         \* the /upload requests in flight and the coroutine the event loop runs
    recstore,   \* the record files write_records keeps, with the history of its calls
    errlog      \* store/errors.log and the number of error ids drawn

regvars == <<logical, instances, clock, hist, last, iofails>>
fnvars == <<arg, ret>>
vars == <<regvars, fnvars, up, recstore, errlog>>

-----------------------------------------------------------------------------
(* Bounds of the model *)

MaxCalls == 3        \* evolve_schema calls in one behaviour
MaxIoFailures == 1   \* calls in one behaviour in which a write fails
MaxDecideDocs == 3   \* candidate documents passed to detect_storage_type
MaxDdlDocs == 2      \* documents passed to generate_sql_schema
MaxKeyLen == 2       \* characters of a freely chosen header cell
MaxLines == 2        \* 'key: value' lines of an input text
MaxUploads == 2      \* /upload requests in one behaviour
MaxTransformFields == 2  \* field names of the documents passed to the transformer
MaxWrites == 2       \* write_records calls in one behaviour
MaxRecordIoFailures == 1  \* file operations of write_records that fail in one behaviour
MaxErrors == 2       \* uploads that raise in one behaviour
MaxMergeCount == 2   \* the largest count and the latest instant of a stored field entry
MaxDiffFields == 2   \* field names of the maps compute_diff is applied to
MaxInferDocs == 4    \* candidate documents of one infer_field_types call
MaxBraceLen == 4     \* characters of a text given to the brace scan
MaxFragJsons == 2       \* JSON fragments of one bundle
MaxFragPairs == 1       \* key:value pairs of one bundle
MaxOrderDocs == 4    \* candidate documents that are decided in two orders

-----------------------------------------------------------------------------
(* Characters and strings *)

\* str.isspace() characters that the model uses
Whitespace == {" ", "\t", "\n", "\r", "\f"}

\* characters with ord(c) < 32; "<SOH>" stands for U+0001
ControlChars == {"\t", "\n", "\r", "\f", "<SOH>"}

Pad(c, n) == [i \in 1..n |-> c]

\* the characters of the model, by class
UpperChars == {"A", "B", "N", "T"}
LowerChars ==
    {"a", "b", "c", "d", "e", "f", "g", "i", "l", "m", "n", "o", "p", "r", "s", "t", "u",
     "v", "x", "y", "z"}
DigitChars == {"0", "1", "2", "3", "4", "5", "6", "7", "8", "9"}

\* str.lower() of one character ("E'" is U+00C9, "e'" is U+00E9)
LowerChar(c) ==
    CASE c = "A" -> "a" [] c = "B" -> "b" [] c = "N" -> "n" [] c = "T" -> "t"
      [] c = "E'" -> "e'"
      [] OTHER -> c

Lower(s) == [i \in 1..Len(s) |-> LowerChar(s[i])]

\* the character class [A-Za-z0-9_]
IsWordChar(c) == c \in UpperChars \cup LowerChars \cup DigitChars \cup {"_"}

RECURSIVE LStrip(_)
LStrip(s) == IF s # <<>> /\ Head(s) \in Whitespace THEN LStrip(Tail(s)) ELSE s

RECURSIVE RStrip(_)
RStrip(s) ==
    IF s # <<>> /\ s[Len(s)] \in Whitespace THEN RStrip(SubSeq(s, 1, Len(s) - 1)) ELSE s

\* str.strip()
Strip(s) == RStrip(LStrip(s))

-----------------------------------------------------------------------------
(* etl/schema_registry.py and etl/schema_infer.py *)

MIN_PROMOTE_COUNT == 2
MAX_FIELD_NAME_LEN == 120

is_plausible_field_name(name) ==
    LET n == Strip(name)
    IN  /\ n # <<>>
        /\ Len(n) <= MAX_FIELD_NAME_LEN
        /\ \A i \in 1..Len(n) : n[i] \notin ControlChars

\* Values of sample documents: ty is type(v).__name__, rep the value's repr
IntOne  == [ty |-> "int", rep |-> "1"]
IntZero == [ty |-> "int", rep |-> "0"]
StrA    == [ty |-> "str", rep |-> "a"]
PyNone  == [ty |-> "NoneType", rep |-> "None"]

\* bool(v) for these values
Truthy(v) == v.rep \notin {"None", "0", ""}

\* A sample document is a dict (isdict, with its items kv) or something else
Dict(f) == [isdict |-> TRUE, kv |-> f]
NotADict == [isdict |-> FALSE, kv |-> <<>>]

EmptyMap == [k \in {} |-> 0]

\* safe_docs = [d for d in sample_docs if isinstance(d, dict)]
SafeDocs(docs) == SelectSeq(docs, LAMBDA d : d.isdict)

RECURSIVE FirstExample(_, _)
\* prop["example"] is set by the first occurrence found while it is still None
FirstExample(docs, k) ==
    IF docs = <<>> THEN PyNone
    ELSE IF k \in DOMAIN Head(docs).kv /\ Head(docs).kv[k] # PyNone
         THEN Head(docs).kv[k]
         ELSE FirstExample(Tail(docs), k)

infer_schema(docs) ==
    LET dd == SafeDocs(docs)
        ks == {k \in UNION {DOMAIN dd[i].kv : i \in 1..Len(dd)} :
                  ~(k # <<>> /\ k[1] = "_")}
    IN  [k \in ks |->
            [types   |-> {dd[i].kv[k].ty : i \in {j \in 1..Len(dd) : k \in DOMAIN dd[j].kv}},
             example |-> FirstExample(dd, k)]]

make_field_meta(name, types, example, seen_time) ==
    [name |-> name, types |-> types, count |-> 1,
     first_seen |-> seen_time, last_seen |-> seen_time, example |-> example]

\* old_meta is a non-empty dict whenever evolve_schema calls this
merge_field_meta(old_meta, new_meta) ==
    [name       |-> new_meta.name,
     types      |-> old_meta.types \cup new_meta.types,
     count      |-> old_meta.count + new_meta.count,
     first_seen |-> old_meta.first_seen,
     last_seen  |-> new_meta.last_seen,
     example    |-> IF Truthy(old_meta.example) THEN old_meta.example ELSE new_meta.example]

properties_to_fields_map(properties, seen_time) ==
    [k \in DOMAIN properties |->
        make_field_meta(k, properties[k].types, properties[k].example, seen_time)]

\* (a variant that reports no removed name)
compute_diff_no_removed(old_fields_map, new_fields_map) ==
    [added   |-> DOMAIN new_fields_map \ DOMAIN old_fields_map,
     removed |-> {},
     type_changes |->
        {[field |-> k, old |-> old_fields_map[k].types, new |-> new_fields_map[k].types] :
            k \in {f \in DOMAIN new_fields_map \cap DOMAIN old_fields_map :
                      old_fields_map[f].types # new_fields_map[f].types}}]

compute_diff(old_fields_map, new_fields_map) ==
    [added   |-> DOMAIN new_fields_map \ DOMAIN old_fields_map,
     removed |-> DOMAIN old_fields_map \ DOMAIN new_fields_map,
     type_changes |->
        {[field |-> k, old |-> old_fields_map[k].types, new |-> new_fields_map[k].types] :
            k \in {f \in DOMAIN new_fields_map \cap DOMAIN old_fields_map :
                      old_fields_map[f].types # new_fields_map[f].types}}]

\* if not source_id: source_id = "default"
source_dir(source_id) == IF source_id = "" THEN "default" ELSE source_id

\* get_logical_schema(source_id) or {"logical_id": None, ..., "fields_map": {}}
OldMap(store, source_id) ==
    IF store[source_dir(source_id)] = <<>> THEN EmptyMap
    ELSE store[source_dir(source_id)][1].fields_map

MergedMap(old_map, new_map) ==
    [f \in DOMAIN old_map \cup DOMAIN new_map |->
        IF f \in DOMAIN new_map
        THEN IF f \in DOMAIN old_map THEN merge_field_meta(old_map[f], new_map[f])
             ELSE new_map[f]
        ELSE old_map[f]]

\* (a variant of the promotion test with the comparison inverted)
PromoteOkInverted(fname, meta) ==
    meta.count < MIN_PROMOTE_COUNT /\ is_plausible_field_name(fname)

\* the promotion test of one merged entry
PromoteOk(fname, meta) ==
    meta.count >= MIN_PROMOTE_COUNT /\ is_plausible_field_name(fname)

PromotedMap(merged_map) ==
    [f \in {g \in DOMAIN merged_map : PromoteOk(g, merged_map[g])} |-> merged_map[f]]

\* (a variant that also hashes the time of the call, as instance_id does)
LogicalHashInputSalted(promoted_map) ==
    [map |-> [f \in DOMAIN promoted_map |-> promoted_map[f].types], salt |-> clock]

\* the text that is hashed into logical_id: field name -> type list, keys sorted
LogicalHashInput(promoted_map) == [f \in DOMAIN promoted_map |-> promoted_map[f].types]

\* the text that is hashed into instance_id: the properties and (file_id or seen_time)
InstanceHashInput(properties, file_id, seen_time) ==
    [props |-> properties,
     salt  |-> IF file_id # 0 THEN [kind |-> "file", val |-> file_id]
               ELSE [kind |-> "time", val |-> seen_time]]

\* The documents evolve_schema builds before it writes anything (lines 138-200)
EvolveDocs(store, source_id, sample_docs, file_id, seen_time) ==
    LET properties   == infer_schema(sample_docs)
        old_map      == OldMap(store, source_id)
        new_map      == properties_to_fields_map(properties, seen_time)
        promoted_map == PromotedMap(MergedMap(old_map, new_map))
    IN  [properties |-> properties,
         old_map    |-> old_map,
         diff       |-> compute_diff(old_map, promoted_map),
         instance_doc |->
            [schema_instance_id |-> InstanceHashInput(properties, file_id, seen_time),
             generated_at |-> seen_time, source_id |-> source_id, file_id |-> file_id,
             properties |-> properties, storage_error |-> FALSE],
         logical_doc |->
            [logical_id |-> LogicalHashInput(promoted_map), updated_at |-> seen_time,
             source_id |-> source_id, fields_map |-> promoted_map,
             storage_error |-> FALSE]]

\* (a variant in which the exception of a failed write is not caught)
AfterWriteUncaught(doc, outcome) == [doc |-> doc, raised |-> outcome # "ok"]

\* try: json.dump(doc) except Exception as e: doc["storage_error"] = str(e)
AfterWrite(doc, outcome) ==
    [doc |-> IF outcome = "ok" THEN doc ELSE [doc EXCEPT !.storage_error = TRUE],
     raised |-> FALSE]

\* (a variant that keeps a logical.json that is already there)
LogicalFileKept(before, doc, outcome) == IF before # <<>> THEN before ELSE <<doc>>

\* what a later _load_json of logical.json finds
LogicalFileAfter(before, doc, outcome) ==
    CASE outcome = "ok"         -> <<doc>>
      [] outcome = "fail_open"  -> before      \* open() failed: the file is untouched
      [] outcome = "fail_write" -> <<>>        \* truncated by open(), then the dump failed

InstOutcomes == {"ok", "fail"}
LogOutcomes == {"ok", "fail_open", "fail_write"}

\* the source ids of the uploads, and those evolve_schema is called with in the
\* registry's own behaviours: the empty id names the source "default"
SourceIds == {"s1", "default"}
RegistrySourceIds == {"s1", ""}
Dirs == {source_dir(s) : s \in SourceIds \cup RegistrySourceIds}

NameX == <<"x">>
NameY == <<"y">>
NameBlank == <<" ">>
NameMeta == <<"_", "m">>

SampleInputs ==
    { <<>>,
      <<Dict([k \in {NameX} |-> IntOne])>>,
      <<Dict([k \in {NameX, NameY} |-> IF k = NameX THEN StrA ELSE IntZero])>>,
      <<Dict([k \in {NameX} |-> PyNone]),
        NotADict,
        Dict([k \in {NameX, NameBlank, NameMeta} |-> IntOne])>> }

RegInit ==
    /\ logical = [d \in Dirs |-> <<>>]
    /\ instances = [d \in Dirs |-> <<>>]
    /\ clock = 1
    /\ hist = [d \in Dirs |-> <<>>]
    /\ last = <<>>
    /\ iofails = 0

\* One evolve_schema call, from its first line to its return
Evolve(source_id, sample_docs, inst_io, log_io) ==
    LET d    == source_dir(source_id)
        fid  == clock
        e    == EvolveDocs(logical, source_id, sample_docs, fid, clock)
        wi   == AfterWrite(e.instance_doc, inst_io)
        wl   == AfterWrite(e.logical_doc, log_io)
        fail == inst_io # "ok" \/ log_io # "ok"
    IN  /\ clock <= MaxCalls
        /\ fail => iofails < MaxIoFailures
        /\ instances' = [instances EXCEPT
                            ![d] = IF inst_io = "ok" THEN Append(@, e.instance_doc) ELSE @]
        /\ logical' = [logical EXCEPT ![d] = LogicalFileAfter(@, e.logical_doc, log_io)]
        /\ clock' = clock + 1
        /\ iofails' = IF fail THEN iofails + 1 ELSE iofails
        /\ hist' = [hist EXCEPT ![d] = Append(@,
                        [fields |-> DOMAIN e.properties,
                         fields_map |-> wl.doc.fields_map,
                         logical_id |-> wl.doc.logical_id,
                         diff |-> e.diff,
                         had_prev |-> logical[d] # <<>>,
                         clean |-> ~fail])]
        /\ last' = <<[source_id |-> source_id, inst_io |-> inst_io, log_io |-> log_io,
                      raised |-> wi.raised \/ wl.raised,
                      logical_id |-> wl.doc.logical_id,
                      instance_id |-> wi.doc.schema_instance_id,
                      logical_doc |-> wl.doc, instance_doc |-> wi.doc,
                      old_map |-> e.old_map, diff |-> e.diff]>>

RegNext ==
    \E s \in RegistrySourceIds, docs \in SampleInputs, ii \in InstOutcomes, li \in LogOutcomes :
        Evolve(s, docs, ii, li)

-----------------------------------------------------------------------------
(* etl/schema_generator.py: detect_storage_type *)

CONSISTENCY_THRESHOLD_TENTHS == 7     \* CFG.CONSISTENCY_THRESHOLD = 0.7
MIN_COLUMNS_FOR_SQL == 1
MIN_DOCS_FOR_CONSISTENCY == 2
TREAT_LIST_AS_NONSCALAR == TRUE

ObjV == [ty |-> "dict", rep |-> "{...}"]
ArrV == [ty |-> "list", rep |-> "[...]"]

\* (a variant that tests isinstance(v, dict) only)
IsNestedDictOnly(v) == v.ty = "dict"

\* isinstance(v, (dict, list))
IsNested(v) == v.ty \in {"dict", "list"}

is_scalar(v) == IF IsNested(v) /\ ~TREAT_LIST_AS_NONSCALAR THEN TRUE ELSE ~IsNested(v)

\* number of documents with at least one dict or list value
NestedCount(docs) ==
    Cardinality({i \in 1..Len(docs) : \E k \in DOMAIN docs[i].kv : IsNested(docs[i].kv[k])})

\* (a variant that takes the last document's key set as the base)
SameKeysAsLast(docs) ==
    Cardinality({i \in 1..Len(docs) : DOMAIN docs[i].kv = DOMAIN docs[Len(docs)].kv})

\* (a variant that leaves the first document out of the count)
SameKeysSkipFirst(docs) ==
    Cardinality({i \in 2..Len(docs) : DOMAIN docs[i].kv = DOMAIN docs[1].kv})

\* same_keys = sum(1 for s in keysets if s == base), base = keysets[0]
SameKeys(docs) ==
    Cardinality({i \in 1..Len(docs) : DOMAIN docs[i].kv = DOMAIN docs[1].kv})

\* f"{consistency:.2f}" as a number of hundredths (no tie arises for fewer than 8 docs)
ConsistencyHundredths(same, total) == (200 * same + total) \div (2 * total)

Reason(text, n, cols, pct) == [text |-> text, n |-> n, cols |-> cols, pct |-> pct]

\* (a variant that tests the HTML tables before the CSV fragments)
detect_storage_type_html_first(sample_docs, fragments) ==
    LET docs == SafeDocs(sample_docs)
        same == SameKeys(docs)
        cols == Cardinality(DOMAIN docs[1].kv)
    IN  IF fragments.html_tables # <<>>
        THEN [type |-> "sql", reason |-> Reason("contains html tables", 0, 0, 0)]
        ELSE IF fragments.csv_fragments # <<>>
        THEN [type |-> "sql", reason |-> Reason("contains csv fragments", 0, 0, 0)]
        ELSE IF docs = <<>>
        THEN IF fragments.kv_pairs # <<>>
             THEN [type |-> "object", reason |-> Reason("only key:value pairs", 0, 0, 0)]
             ELSE [type |-> "object", reason |-> Reason("no structured docs found", 0, 0, 0)]
        ELSE IF NestedCount(docs) > 0
        THEN [type |-> "nosql",
              reason |-> Reason("found nested structures in N docs", NestedCount(docs), 0, 0)]
        ELSE IF /\ Len(docs) >= MIN_DOCS_FOR_CONSISTENCY
                /\ same * 10 >= CONSISTENCY_THRESHOLD_TENTHS * Len(docs)
                /\ cols >= MIN_COLUMNS_FOR_SQL
        THEN IF \A i \in 1..Len(docs) : \A k \in DOMAIN docs[i].kv : is_scalar(docs[i].kv[k])
             THEN [type |-> "sql",
                   reason |-> Reason("consistent flat rows (C cols, consistency=P)", 0, cols,
                                     ConsistencyHundredths(same, Len(docs)))]
             ELSE [type |-> "nosql",
                   reason |-> Reason("flat keys but some non-scalar values", 0, 0, 0)]
        ELSE [type |-> "object",
              reason |-> Reason("no consistent tabular structure detected", 0, 0, 0)]

detect_storage_type(sample_docs, fragments) ==
    LET docs == SafeDocs(sample_docs)
        same == SameKeys(docs)
        cols == Cardinality(DOMAIN docs[1].kv)
    IN  IF fragments.csv_fragments # <<>>
        THEN [type |-> "sql", reason |-> Reason("contains csv fragments", 0, 0, 0)]
        ELSE IF fragments.html_tables # <<>>
        THEN [type |-> "sql", reason |-> Reason("contains html tables", 0, 0, 0)]
        ELSE IF docs = <<>>
        THEN IF fragments.kv_pairs # <<>>
             THEN [type |-> "object", reason |-> Reason("only key:value pairs", 0, 0, 0)]
             ELSE [type |-> "object", reason |-> Reason("no structured docs found", 0, 0, 0)]
        ELSE IF NestedCount(docs) > 0
        THEN [type |-> "nosql",
              reason |-> Reason("found nested structures in N docs", NestedCount(docs), 0, 0)]
        ELSE IF /\ Len(docs) >= MIN_DOCS_FOR_CONSISTENCY
                /\ same * 10 >= CONSISTENCY_THRESHOLD_TENTHS * Len(docs)
                /\ cols >= MIN_COLUMNS_FOR_SQL
        THEN IF \A i \in 1..Len(docs) : \A k \in DOMAIN docs[i].kv : is_scalar(docs[i].kv[k])
             THEN [type |-> "sql",
                   reason |-> Reason("consistent flat rows (C cols, consistency=P)", 0, cols,
                                     ConsistencyHundredths(same, Len(docs)))]
             ELSE [type |-> "nosql",
                   reason |-> Reason("flat keys but some non-scalar values", 0, 0, 0)]
        ELSE [type |-> "object",
              reason |-> Reason("no consistent tabular structure detected", 0, 0, 0)]

KeyA == <<"a">>
KeyB == <<"b">>

\* the candidate documents of the model: dicts over the keys a and b, and a non-dict
DecideDocs ==
    {NotADict} \cup
    {Dict(f) : f \in UNION {[ks -> {IntOne, ObjV, ArrV}] : ks \in SUBSET {KeyA, KeyB}}}

SeqsUpTo(S, n) == UNION {[1..m -> S] : m \in 0..n}

Row == "row"
Presence == {<<>>, <<Row>>}

DecInit ==
    /\ arg \in [docs : SeqsUpTo(DecideDocs, MaxDecideDocs),
                fragments : [csv_fragments : Presence, html_tables : Presence,
                             kv_pairs : Presence]]
    /\ ret = <<>>

FnIdle == arg = <<>> /\ ret = <<>>

Decide ==
    /\ ret = <<>>
    /\ ret' = <<detect_storage_type(arg.docs, arg.fragments)>>
    /\ UNCHANGED arg

-----------------------------------------------------------------------------
(* etl/schema_generator.py: infer_field_types and generate_sql_schema *)

DATE_THRESHOLD_TENTHS == 6
INT_THRESHOLD_TENTHS == 8
FLOAT_THRESHOLD_TENTHS == 5
NUMERIC_THRESHOLD_TENTHS == 8    \* the literal 0.8 of the combined int+float test
BOOL_THRESHOLD_TENTHS == 8       \* the literal 0.8 of the boolean test

\* The class in which infer_field_types tallies one occurrence: the first of
\* _is_int, _is_float, _is_bool, _is_date, dict, list that accepts it.
\* int(v) succeeds on a finite float; bool is refused by _is_int and taken by
\* _is_float, since float(True) succeeds.
TallyClass(v) ==
    CASE v.ty = "int"   -> "int"
      [] v.ty = "float" -> "int"
      [] v.ty = "bool"  -> "float"
      [] v.ty = "str" /\ v.rep \in {"1", "0", "12"} -> "int"
      [] v.ty = "str" /\ v.rep \in {"2.5"} -> "float"
      [] v.ty = "str" /\ v.rep \in {"true", "false", "yes", "no", "y", "n"} -> "bool"
      [] v.ty = "str" /\ v.rep \in {"2020-01-02"} -> "date"
      [] v.ty = "dict" -> "object"
      [] v.ty = "list" -> "array"
      [] OTHER -> "none"

\* the indices of the dict documents that hold field k
Holders(docs, k) == {i \in 1..Len(docs) : docs[i].isdict /\ k \in DOMAIN docs[i].kv}

Tally(docs, k, class) ==
    Cardinality({i \in Holders(docs, k) : TallyClass(docs[i].kv[k]) = class})

\* (a variant with a strict comparison)
AtLeastStrict(n, c, tenths) == n * 10 > tenths * c

\* n / c >= tenths / 10
AtLeast(n, c, tenths) == n * 10 >= tenths * c

InferredType(docs, k) ==
    LET c == Cardinality(Holders(docs, k))
        T(class) == Tally(docs, k, class)
    IN  IF T("object") > 0 THEN "object"
        ELSE IF T("array") > 0 THEN "array"
        ELSE IF AtLeast(T("date"), c, DATE_THRESHOLD_TENTHS) THEN "date"
        ELSE IF AtLeast(T("int"), c, INT_THRESHOLD_TENTHS) THEN "integer"
        ELSE IF \/ AtLeast(T("float"), c, FLOAT_THRESHOLD_TENTHS)
                \/ (AtLeast(T("int") + T("float"), c, NUMERIC_THRESHOLD_TENTHS) /\ T("float") > 0)
        THEN "decimal"
        ELSE IF AtLeast(T("bool"), c, BOOL_THRESHOLD_TENTHS) THEN "boolean"
        ELSE "string"

\* stats[k]["sample"]: the value of the first occurrence of k
FirstSample(docs, k) ==
    docs[CHOOSE i \in Holders(docs, k) : \A j \in Holders(docs, k) : i <= j].kv[k]

infer_field_types(docs) ==
    [k \in UNION {DOMAIN docs[i].kv : i \in {j \in 1..Len(docs) : docs[j].isdict}} |->
        [type |-> InferredType(docs, k), example |-> FirstSample(docs, k),
         count |-> Cardinality(Holders(docs, k))]]

sql_type_from_inferred(t) ==
    CASE t = "integer" -> "INTEGER"
      [] t = "decimal" -> "DECIMAL"
      [] t = "boolean" -> "BOOLEAN"
      [] t = "date"    -> "TIMESTAMP"
      [] OTHER         -> "TEXT"

\* (a variant without the .lower())
SqlColNameNoLower(k) == [i \in 1..Len(k) |-> IF IsWordChar(k[i]) THEN k[i] ELSE "_"]

\* colname = re.sub(r'[^A-Za-z0-9_]', '_', k).lower()
SqlColName(k) == Lower([i \in 1..Len(k) |-> IF IsWordChar(k[i]) THEN k[i] ELSE "_"])

\* The statement is modelled by its parts: whether one is produced at all, the
\* table name, and for each field the column entry '"colname" SQLTYPE' built for it.
generate_sql_schema(table_name, docs) ==
    IF docs = <<>>
    THEN [ddl |-> [create |-> FALSE, table |-> "", cols |-> EmptyMap], fields |-> EmptyMap]
    ELSE LET field_types == infer_field_types(docs)
         IN  [ddl |-> [create |-> TRUE, table |-> table_name,
                       cols |-> [k \in DOMAIN field_types |->
                                    [colname |-> SqlColName(k),
                                     sqltype |-> sql_type_from_inferred(field_types[k].type)]]],
              fields |-> field_types]

DdlNames == {<<"A">>, <<"a", "-", "b">>, <<"a", "_", "b">>}

DdlDocs ==
    {NotADict} \cup
    {Dict(f) : f \in UNION {[ks -> {IntOne, StrA}] : ks \in SUBSET DdlNames}}

DdlInit ==
    /\ arg \in [table_name : {"t"}, docs : SeqsUpTo(DdlDocs, MaxDdlDocs)]
    /\ ret = <<>>

GenerateSql ==
    /\ ret = <<>>
    /\ ret' = <<generate_sql_schema(arg.table_name, arg.docs)>>
    /\ UNCHANGED arg

-----------------------------------------------------------------------------
(* etl/parser.py *)

MAX_SANITIZED_KEY_LEN == 60     \* _sanitize_keys: len(k2) > 60
LONG_TOKEN_LEN == 120           \* _RE_LONG_TOKEN = \S{120,}
CSV_WINDOW == 20                \* lines[i:i+20]
KV_MAX_KEY_LEN == 80            \* extract_kv_pairs: len(key) > 80
SAFE_KEY_MAX_LEN == 60          \* _RE_SAFE_KEY: {1,60}
RAW_TEXT_LEN == 10000           \* text[:10000]

\* the characters of _RE_CONTROL that the model uses ("<DEL>" is U+007F)
CleanControlChars == {"<SOH>", "<DEL>"}

\* the line boundaries of str.splitlines() that the model uses
LineBreaks == {"\n", "\r", "\f"}

AsciiLetters == UpperChars \cup LowerChars

RECURSIVE Concat(_)
\* the concatenation of a sequence of sequences
Concat(ss) == IF ss = <<>> THEN <<>> ELSE Head(ss) \o Concat(Tail(ss))

RECURSIVE JoinWith(_, _)
\* sep.join(ss)
JoinWith(ss, sep) ==
    IF ss = <<>> THEN <<>>
    ELSE IF Len(ss) = 1 THEN ss[1]
    ELSE ss[1] \o sep \o JoinWith(Tail(ss), sep)

\* re.sub('[class]+', r, s), r one character: every maximal run of characters of
\* class becomes r ("<drop>" marks the positions that disappear)
SubRuns(s, class, r) ==
    LET t == [i \in 1..Len(s) |->
                IF s[i] \notin class THEN s[i]
                ELSE IF i < Len(s) /\ s[i + 1] \in class THEN "<drop>" ELSE r]
    IN  SelectSeq(t, LAMBDA c : c # "<drop>")

RECURSIVE Split(_, _)
\* the pieces of s between the characters of seps (empty pieces kept)
Split(s, seps) ==
    IF \A i \in 1..Len(s) : s[i] \notin seps THEN <<s>>
    ELSE LET i == CHOOSE k \in 1..Len(s) : s[k] \in seps /\ \A j \in 1..(k - 1) : s[j] \notin seps
         IN  <<SubSeq(s, 1, i - 1)>> \o Split(SubSeq(s, i + 1, Len(s)), seps)

\* "\r\n" is one line boundary
MergeCrLf(s) ==
    SelectSeq([i \in 1..Len(s) |->
                 IF s[i] = "\r" /\ i < Len(s) /\ s[i + 1] = "\n" THEN "<drop>" ELSE s[i]],
              LAMBDA c : c # "<drop>")

\* str.splitlines()
SplitLines(s) ==
    LET p == Split(MergeCrLf(s), LineBreaks)
    IN  IF s = <<>> THEN <<>>
        ELSE IF p[Len(p)] = <<>> THEN SubSeq(p, 1, Len(p) - 1)
        ELSE p

RECURSIVE DropLongAcc(_, _)
DropLongAcc(s, cur) ==
    LET flush == IF Len(cur) >= LONG_TOKEN_LEN THEN <<" ">> ELSE cur
    IN  IF s = <<>> THEN flush
        ELSE IF Head(s) \in Whitespace THEN flush \o <<Head(s)>> \o DropLongAcc(Tail(s), <<>>)
        ELSE DropLongAcc(Tail(s), Append(cur, Head(s)))

\* _RE_LONG_TOKEN.sub(' ', text): a run of 120 or more non-whitespace characters
\* becomes one space
DropLongTokens(s) == IF Len(s) < LONG_TOKEN_LEN THEN s ELSE DropLongAcc(s, <<>>)

clean_text(raw) ==
    LET t1 == SubRuns(raw, CleanControlChars, " ")
        t2 == [i \in 1..Len(t1) |-> IF t1[i] = "\r" THEN "\n" ELSE t1[i]]
        t3 == DropLongTokens(t2)
    IN  Strip(SubRuns(t3, Whitespace, " "))

\* an ordered dict built by a comprehension over pairs: a repeated key keeps its
\* first position and takes the last value
RECURSIVE DictFromPairs(_)
DictFromPairs(pairs) ==
    IF pairs = <<>> THEN <<>>
    ELSE LET init == DictFromPairs(SubSeq(pairs, 1, Len(pairs) - 1))
             p    == pairs[Len(pairs)]
         IN  IF \E i \in 1..Len(init) : init[i][1] = p[1]
             THEN [i \in 1..Len(init) |-> IF init[i][1] = p[1] THEN p ELSE init[i]]
             ELSE Append(init, p)

\* (a variant of SanitizedKey without the .lower())
SanitizedKeyNoLower(k) ==
    SelectSeq(SubRuns(Strip(k), Whitespace, "_"), IsWordChar)

\* the key _sanitize_keys derives from k
SanitizedKey(k) ==
    SelectSeq(SubRuns(Lower(Strip(k)), Whitespace, "_"), IsWordChar)

\* _sanitize_keys(d), d given by its items in order; the result is an ordered dict too
sanitize_keys(items) ==
    LET kept == SelectSeq(items, LAMBDA it :
                    SanitizedKey(it[1]) # <<>> /\ Len(SanitizedKey(it[1])) <= MAX_SANITIZED_KEY_LEN)
    IN  DictFromPairs([i \in 1..Len(kept) |-> <<SanitizedKey(kept[i][1]), kept[i][2]>>])

RECURSIVE IntToStr(_)
IntToStr(n) ==
    LET d == <<"0", "1", "2", "3", "4", "5", "6", "7", "8", "9">>
    IN  IF n < 10 THEN <<d[n + 1]>> ELSE IntToStr(n \div 10) \o <<d[(n % 10) + 1]>>

\* f"col{i}"
ColName(i) == <<"c", "o", "l">> \o IntToStr(i)

\* re.search(r'[A-Za-z]', h)
HasLetter(h) == \E i \in 1..Len(h) : h[i] \in AsciiLetters

\* the records of one <table>, rows0 being the cell texts of its <tr> elements
TableRecords(rows0) ==
    LET rows == SelectSeq(rows0, LAMBDA r : r # <<>>)
        hdr  == rows[1]
        headers == [i \in 1..Len(hdr) |-> IF hdr[i] # <<>> THEN hdr[i] ELSE ColName(i - 1)]
    IN  IF rows = <<>> THEN <<>>
        ELSE IF Len(rows) >= 2 /\ \E i \in 1..Len(hdr) : HasLetter(hdr[i])
        THEN [j \in 1..(Len(rows) - 1) |->
                sanitize_keys(DictFromPairs(
                    [i \in 1..Len(headers) |->
                        <<Strip(headers[i]),
                          IF i <= Len(rows[j + 1]) THEN Strip(rows[j + 1][i]) ELSE <<>> >>]))]
        ELSE IF Len(rows) >= 2 /\ \A j \in 1..Len(rows) : Len(rows[j]) = Len(rows[1])
        THEN [j \in 1..Len(rows) |->
                sanitize_keys(DictFromPairs(
                    [i \in 1..Len(rows[j]) |-> <<ColName(i - 1), Strip(rows[j][i])>>]))]
        ELSE <<>>

\* extract_html_tables, given the tables BeautifulSoup finds in the text
extract_html_tables(tables) == Concat([t \in 1..Len(tables) |-> TableRecords(tables[t])])

\* csv.reader on text without quote characters: one row per line, cells split at ','
CsvRows(lines) == [i \in 1..Len(lines) |-> Split(lines[i], {","})]

\* the records of the window of lines that starts at line i
CsvWindowRecords(lines, i) ==
    LET hi     == IF i + CSV_WINDOW - 1 < Len(lines) THEN i + CSV_WINDOW - 1 ELSE Len(lines)
        block  == SubSeq(lines, i, hi)
        reader == CsvRows(block)
        header == reader[1]
        good   == SelectSeq(Tail(reader), LAMBDA r : Len(r) = Len(header))
    IN  IF \A j \in 1..Len(block) : "," \notin {block[j][c] : c \in 1..Len(block[j])}
        THEN <<>>
        ELSE IF Len(reader) < 2 THEN <<>>
        ELSE IF ~\E c \in 1..Len(header) : HasLetter(header[c]) THEN <<>>
        ELSE [g \in 1..Len(good) |->
                sanitize_keys(DictFromPairs(
                    [c \in 1..Len(header) |-> <<Strip(header[c]), Strip(good[g][c])>>]))]

extract_csv_fragments(text) ==
    LET lines == SelectSeq(SplitLines(text), LAMBDA ln : Strip(ln) # <<>>)
    IN  Concat([i \in 1..Len(lines) |-> CsvWindowRecords(lines, i)])

\* _RE_SAFE_KEY = ^[A-Za-z0-9_\- ]{1,60}$
IsSafeKey(key) ==
    /\ Len(key) >= 1 /\ Len(key) <= SAFE_KEY_MAX_LEN
    /\ \A i \in 1..Len(key) : IsWordChar(key[i]) \/ key[i] \in {"-", " "}

\* the pairs one line contributes: none or one
KvOfLine(line) ==
    LET idx  == CHOOSE i \in 1..Len(line) : line[i] = ":" /\ \A j \in 1..(i - 1) : line[j] # ":"
        key  == Strip(SubSeq(line, 1, idx - 1))
        val  == Strip(SubSeq(line, idx + 1, Len(line)))
        key2 == Strip(SelectSeq(key, LAMBDA c : IsWordChar(c) \/ c = " "))
    IN  IF ~\E i \in 1..Len(line) : line[i] = ":" THEN <<>>
        ELSE IF key = <<>> \/ Len(key) > KV_MAX_KEY_LEN THEN <<>>
        ELSE IF IsSafeKey(key) THEN << <<key, val>> >>
        ELSE IF key2 = <<>> THEN <<>>
        ELSE << <<key2, val>> >>

extract_kv_pairs(text) ==
    Concat([i \in 1..Len(SplitLines(text)) |-> KvOfLine(SplitLines(text)[i])])

RECURSIVE BraceScan(_, _, _, _, _)
\* _extract_brace_jsons: i the position, depth the stack height, start the position
\* of the '{' that opened the current block (0 for None)
BraceScan(text, i, depth, start, res) ==
    IF i > Len(text) THEN res
    ELSE IF text[i] = "{"
         THEN BraceScan(text, i + 1, depth + 1, IF depth = 0 THEN i ELSE start, res)
    ELSE IF text[i] = "}" /\ depth > 0
         THEN IF depth = 1 /\ start # 0
              THEN BraceScan(text, i + 1, 0, 0, Append(res, SubSeq(text, start, i)))
              ELSE BraceScan(text, i + 1, depth - 1, start, res)
    ELSE BraceScan(text, i + 1, depth, start, res)

extract_brace_jsons(text) ==
    IF \A i \in 1..Len(text) : text[i] # "{" THEN <<>> ELSE BraceScan(text, 1, 0, 0, <<>>)

\* try_parse_json(text) is a dict. The characters of the model include no double
\* quote, so the only JSON object a text can spell is the empty one, "{}" with
\* optional blanks, possibly after _repair_json_fragment has removed a ',' that
\* stands before the '}'.
ParsesToDict(text) ==
    LET s == Strip(text)
        repaired == SelectSeq(s, LAMBDA c : c \notin Whitespace \cup {","})
    IN  /\ s # <<>> /\ s[1] = "{"
        /\ repaired = <<"{", "}">>
        /\ \A i \in 1..Len(s) : s[i] = "," => \A j \in 1..(i - 1) : s[j] # ","

\* each fragment is the parsed object; the empty object is the only one (see above)
extract_json_fragments(text) ==
    (IF ParsesToDict(text) THEN << <<>> >> ELSE <<>>) \o
    [i \in 1..Len(SelectSeq(extract_brace_jsons(text), ParsesToDict)) |-> <<>>]

\* extract_fragments_from_bytes for a file that is not a PDF: decoded is
\* b.decode("utf-8", errors="ignore"), tables what BeautifulSoup finds in the
\* cleaned text
extract_fragments_from_bytes(decoded, tables) ==
    LET text == clean_text(decoded)
    IN  [json_fragments |-> extract_json_fragments(text),
         html_tables    |-> extract_html_tables(tables),
         csv_fragments  |-> extract_csv_fragments(text),
         kv_pairs       |-> extract_kv_pairs(text),
         raw_text       |-> SubSeq(text, 1, IF Len(text) < RAW_TEXT_LEN THEN Len(text)
                                            ELSE RAW_TEXT_LEN)]

\* Inputs of the extractor
KeyChars == {"A", "b", "7", "_", " ", "-", "!", "E'"}

LongKeys ==
    {Pad("a", 59), Pad("a", 60), Pad("a", 61), Pad("A", 60) \o <<"!">>,
     Pad("a", 59) \o <<" ", "b">>, Pad("a", 60) \o <<" ", "b">>}

HeaderKeys == SeqsUpTo(KeyChars, MaxKeyLen) \cup LongKeys

KvKeys == {<<"N", "a", "m", "e">>, <<"A", "g", "e">>}
KvVals == {<<"A", "l", "i", "c", "e">>, <<"3", "0">>}

\* the text of the lines "key: value", one per pair
KvText(pairs) ==
    JoinWith([i \in 1..Len(pairs) |-> pairs[i][1] \o <<":", " ">> \o pairs[i][2]], <<"\n">>)

\* a header line "<h>,b" followed by data lines
CsvText(h, data) == JoinWith(<<h \o <<",", "b">>>> \o data, <<"\n">>)

CsvData == { << <<"1", ",", "3">> >>, << <<"7">>, <<"1", ",", "3">> >> }

\* the tables of the model: a first row of two cells and one or two further rows.
\* get_text(strip=True) returns stripped cell texts
HtmlTables ==
    {<< <<Strip(h), h2>>, r >> :
        h \in HeaderKeys, h2 \in {<<"b">>, <<"B">>, <<>>}, r \in {<<<<"1">>, <<"3">>>>, <<<<"1">>>>}}
    \cup {<< <<<<"7">>, <<"1">>>>, <<<<"1">>, <<"3">>>> >>,
          << <<<<"7">>, <<"1">>>>, <<<<"1">>>> >>,
          << <<<<"A">>, <<"b">>>> >>}

\* "<markup>" stands for the markup of the tables, which holds no ':' ',' '{' '}';
\* the inputs of kind "key" are one line "<key>: v"
ParseInputs ==
    {[kind |-> "kv", decoded |-> KvText(ps), tables |-> <<>>, lines |-> ps] :
        ps \in SeqsUpTo(KvKeys \X KvVals, MaxLines)}
    \cup {[kind |-> "csv", decoded |-> CsvText(h, d), tables |-> <<>>, lines |-> <<>>] :
        h \in HeaderKeys, d \in CsvData}
    \cup {[kind |-> "html", decoded |-> <<"<markup>">>, tables |-> <<t>>, lines |-> <<>>] :
        t \in HtmlTables}
    \cup {[kind |-> "key", decoded |-> k \o <<":", " ", "v">>, tables |-> <<>>, lines |-> <<>>] :
        k \in HeaderKeys \cup {Pad("a", 80), Pad("a", 81)}}

ParseInit == arg \in ParseInputs /\ ret = <<>>

\* the upload handler's call of the extractor
ExtractFragments ==
    /\ ret = <<>>
    /\ ret' = <<[op |-> "bundle",
                 value |-> extract_fragments_from_bytes(arg.decoded, arg.tables)]>>
    /\ UNCHANGED arg

\* extract_csv_fragments called on a text as it is
ExtractCsv ==
    /\ ret = <<>>
    /\ ret' = <<[op |-> "csv", value |-> extract_csv_fragments(arg.decoded)]>>
    /\ UNCHANGED arg

\* extract_kv_pairs called on a text as it is
ExtractKv ==
    /\ ret = <<>>
    /\ ret' = <<[op |-> "kv", value |-> extract_kv_pairs(arg.decoded)]>>
    /\ UNCHANGED arg

ParseNext == ExtractFragments \/ ExtractCsv \/ ExtractKv

-----------------------------------------------------------------------------
(* app/api/upload.py: the /upload handler on the event loop *)

Uploads == 1..MaxUploads

\* the candidate documents the handler derives from a file
UpDocs ==
    { <<Dict([k \in {NameX} |-> IntOne])>>,
      <<Dict([k \in {NameX, NameY} |-> IF k = NameX THEN StrA ELSE IntZero])>>,
      <<Dict([k \in {NameX} |-> IntOne]), Dict([k \in {NameX, NameMeta} |-> IntOne])>> }

\* no request has arrived
UpIdle == up = [pc |-> <<>>, req |-> <<>>, running |-> <<>>, snap |-> <<>>]

UpInit ==
    /\ up \in [pc : {[u \in Uploads |-> "idle"]},
               req : [Uploads -> [source_id : SourceIds, docs : UpDocs]],
               running : {<<>>},
               snap : {[u \in Uploads |-> <<>>]}]

\* (a variant in which a handler may run while another one is between two of its
\* steps, as under preemptive scheduling)
CanRunPreemptive(u) == TRUE

\* upload_file is a coroutine: the event loop runs one coroutine at a time and
\* leaves it only at an await
CanRun(u) == up.running = <<>> \/ up.running = <<u>>

\* lines 43-48: the handler runs up to "await file.read()" and is suspended there
Start(u) ==
    /\ up.pc[u] = "idle"
    /\ CanRun(u)
    /\ up' = [up EXCEPT !.pc[u] = "reading", !.running = <<>>]
    /\ UNCHANGED <<regvars, fnvars>>

\* lines 48-85 and evolve_schema up to the built documents: file.read() has
\* returned; the handler loads the logical schema of its source and merges
Resume(u) ==
    /\ up.pc[u] = "reading"
    /\ CanRun(u)
    /\ up' = [up EXCEPT !.pc[u] = "merged", !.running = <<u>>,
                        !.snap[u] = <<EvolveDocs(logical, up.req[u].source_id,
                                                 up.req[u].docs, clock, clock)>>]
    /\ clock' = clock + 1
    /\ UNCHANGED <<logical, instances, hist, last, iofails, fnvars>>

\* evolve_schema, the two writes: the instance file, then logical.json
Persist(u, inst_io, log_io) ==
    LET d    == source_dir(up.req[u].source_id)
        e    == up.snap[u][1]
        fail == inst_io # "ok" \/ log_io # "ok"
    IN  /\ up.pc[u] = "merged"
        /\ CanRun(u)
        /\ fail => iofails < MaxIoFailures
        /\ instances' = [instances EXCEPT
                            ![d] = IF inst_io = "ok" THEN Append(@, e.instance_doc) ELSE @]
        /\ logical' = [logical EXCEPT ![d] = LogicalFileAfter(@, e.logical_doc, log_io)]
        /\ iofails' = IF fail THEN iofails + 1 ELSE iofails
        /\ up' = [up EXCEPT !.pc[u] = "persisted", !.running = <<u>>]
        /\ UNCHANGED <<clock, hist, last, fnvars>>

\* lines 88-136: the records are written, the response is built and returned
Finish(u) ==
    /\ up.pc[u] = "persisted"
    /\ CanRun(u)
    /\ up' = [up EXCEPT !.pc[u] = "done", !.running = <<>>]
    /\ UNCHANGED <<regvars, fnvars>>

UpNext ==
    \E u \in Uploads :
        \/ Start(u)
        \/ Resume(u)
        \/ \E ii \in InstOutcomes, li \in LogOutcomes : Persist(u, ii, li)
        \/ Finish(u)

-----------------------------------------------------------------------------
(* etl/schema_registry.py: the instance files and get_schema_history *)

\* str(n) padded with zeros to w digits
ZeroPad(n, w) == Pad("0", w - Len(IntToStr(n))) \o IntToStr(n)

\* datetime.isoformat() of second sec, microsecond micro of one fixed minute: the
\* fraction is left out when microsecond is 0
isoformat(sec, micro) ==
    <<"2", "0", "2", "6", "-", "0", "1", "-", "0", "1", "T", "0", "0", ":", "0", "0", ":">>
    \o ZeroPad(sec, 2)
    \o (IF micro = 0 THEN <<>> ELSE <<".">> \o ZeroPad(micro, 6))

\* _nowz() at instant t: the documents of the model hold the instant, and this is
\* its text. Instants are half a second apart, so every second one falls on a
\* whole second.
nowz(t) == isoformat(t \div 2, (t % 2) * 500000) \o <<"Z">>

\* the characters of file names and type tags in code-point order
CodePointOrder ==
    <<"-", ".", "0", "1", "2", "3", "4", "5", "6", "7", "8", "9", ":", "N", "T", "Z", "_",
      "a", "b", "c", "d", "e", "f", "i", "l", "n", "o", "p", "r", "s", "t", "y">>

\* the rank of c in that order: Ord(c) < Ord(d) exactly when ord(c) < ord(d)
Ord(c) == CHOOSE i \in 1..Len(CodePointOrder) : CodePointOrder[i] = c

\* a < b for str
StrLess(a, b) ==
    LET n == IF Len(a) < Len(b) THEN Len(a) ELSE Len(b)
        diff == {i \in 1..n : a[i] # b[i]}
        d == CHOOSE i \in diff : \A j \in diff : i <= j
    IN  IF diff = {} THEN Len(a) < Len(b) ELSE Ord(a[d]) < Ord(b[d])

\* the file name of an instance document up to the id: f"{generated_at}__". Two
\* names of different instants differ before the id starts.
instance_path(doc) == nowz(doc.generated_at) \o <<"_", "_">>

\* get_schema_history: the readable instance files in sorted(os.listdir(d)) order
get_schema_history(store, source_id) ==
    SortSeq(store[source_dir(source_id)],
            LAMBDA a, b : StrLess(instance_path(a), instance_path(b)))

-----------------------------------------------------------------------------
(* etl/transformer.py *)

\* Values of a raw document: ty is type(v).__name__, rep the characters of str(v)
TvInt    == [ty |-> "int", rep |-> <<"1">>]
TvFloat  == [ty |-> "float", rep |-> <<"2", ".", "5">>]
TvTrue   == [ty |-> "bool", rep |-> <<"T", "r", "u", "e">>]
TvStrNum == [ty |-> "str", rep |-> <<" ", "0", "7">>]
TvStrA   == [ty |-> "str", rep |-> <<"a">>]
TvNone   == [ty |-> "NoneType", rep |-> <<"N", "o", "n", "e">>]
TvDict   == [ty |-> "dict", rep |-> <<"{", "}">>]

\* the spelling of a type tag
TagText(tag) ==
    CASE tag = "int" -> <<"i", "n", "t">>
      [] tag = "float" -> <<"f", "l", "o", "a", "t">>
      [] tag = "bool" -> <<"b", "o", "o", "l">>
      [] tag = "str" -> <<"s", "t", "r">>
      [] tag = "NoneType" -> <<"N", "o", "n", "e", "T", "y", "p", "e">>
      [] tag = "dict" -> <<"d", "i", "c", "t">>
      [] tag = "list" -> <<"l", "i", "s", "t">>

\* sub in s, for str
Contains(s, sub) ==
    \E i \in 1..(Len(s) - Len(sub) + 1) : SubSeq(s, i, i + Len(sub) - 1) = sub

\* a set of type tags as the sorted list the registry stores
RECURSIVE SortedTags(_)
SortedTags(tags) ==
    IF tags = {} THEN <<>>
    ELSE LET m == CHOOSE t \in tags :
                    \A u \in tags \ {t} : StrLess(TagText(t), TagText(u))
         IN  <<m>> \o SortedTags(tags \ {m})

\* ",".join(types).lower()
JoinedTypes(types) ==
    Lower(JoinWith([i \in 1..Len(SortedTags(types)) |-> TagText(SortedTags(types)[i])], <<",">>))

\* the target primitive of a field with these type tags; <<>> for chosen = None
ChosenTarget(types) ==
    IF types = {} THEN <<>>
    ELSE IF Contains(JoinedTypes(types), <<"i", "n", "t">>) THEN <<"integer">>
    ELSE IF Contains(JoinedTypes(types), <<"f", "l", "o", "a", "t">>)
            \/ Contains(JoinedTypes(types), <<"d", "e", "c", "i", "m", "a", "l">>)
         THEN <<"decimal">>
    ELSE IF Contains(JoinedTypes(types), <<"b", "o", "o", "l">>) THEN <<"boolean">>
    ELSE <<"string">>

IsDigits(s) == s # <<>> /\ \A i \in 1..Len(s) : s[i] \in DigitChars

RECURSIVE DropLeadingZeros(_)
DropLeadingZeros(s) ==
    IF Len(s) >= 2 /\ s[1] = "0" THEN DropLeadingZeros(Tail(s)) ELSE s

RECURSIVE DropTrailingZeros(_)
DropTrailingZeros(s) ==
    IF Len(s) >= 2 /\ s[Len(s)] = "0" THEN DropTrailingZeros(SubSeq(s, 1, Len(s) - 1)) ELSE s

\* the position of the '.' of s, 0 if there is none
DotAt(s) == IF \E i \in 1..Len(s) : s[i] = "." THEN CHOOSE i \in 1..Len(s) : s[i] = "." ELSE 0

\* int(val): <<>> when it raises, else <<the int>>
PyInt(val) ==
    CASE val.ty = "int" -> <<val>>
      [] val.ty = "bool" ->
            <<[ty |-> "int", rep |-> IF val.rep = <<"T", "r", "u", "e">> THEN <<"1">> ELSE <<"0">>]>>
      [] val.ty = "float" ->
            <<[ty |-> "int", rep |-> SubSeq(val.rep, 1, DotAt(val.rep) - 1)]>>
      [] val.ty = "str" ->
            IF IsDigits(Strip(val.rep))
            THEN <<[ty |-> "int", rep |-> DropLeadingZeros(Strip(val.rep))]>>
            ELSE <<>>
      [] OTHER -> <<>>

\* float(val): <<>> when it raises, else <<the float>>
PyFloat(val) ==
    CASE val.ty = "int" -> <<[ty |-> "float", rep |-> val.rep \o <<".", "0">>]>>
      [] val.ty = "bool" ->
            <<[ty |-> "float",
               rep |-> IF val.rep = <<"T", "r", "u", "e">> THEN <<"1", ".", "0">>
                       ELSE <<"0", ".", "0">>]>>
      [] val.ty = "float" -> <<val>>
      [] val.ty = "str" ->
            LET s == Strip(val.rep)
                d == DotAt(s)
                whole == IF d = 0 THEN s ELSE SubSeq(s, 1, d - 1)
                frac  == IF d = 0 THEN <<"0">> ELSE SubSeq(s, d + 1, Len(s))
            IN  IF IsDigits(whole) /\ IsDigits(frac)
                THEN <<[ty |-> "float",
                        rep |-> DropLeadingZeros(whole) \o <<".">> \o DropTrailingZeros(frac)]>>
                ELSE <<>>
      [] OTHER -> <<>>

\* str(val).strip().lower() in ("1", "true", "yes", "y")
PyTruthText(val) ==
    Lower(Strip(val.rep)) \in
        {<<"1">>, <<"t", "r", "u", "e">>, <<"y", "e", "s">>, <<"y">>}

PyBool(b) ==
    [ty |-> "bool", rep |-> IF b THEN <<"T", "r", "u", "e">> ELSE <<"F", "a", "l", "s", "e">>]

\* (a variant that returns None when the cast raises)
cast_value_or_none(val, target_type) ==
    IF val = TvNone THEN TvNone
    ELSE CASE target_type = "integer" -> IF PyInt(val) = <<>> THEN TvNone ELSE PyInt(val)[1]
           [] target_type = "decimal" -> IF PyFloat(val) = <<>> THEN TvNone ELSE PyFloat(val)[1]
           [] target_type = "boolean" -> IF val.ty = "bool" THEN val ELSE PyBool(PyTruthText(val))
           [] OTHER -> [ty |-> "str", rep |-> val.rep]

\* _cast_value
cast_value(val, target_type) ==
    IF val = TvNone THEN TvNone
    ELSE CASE target_type = "integer" -> IF PyInt(val) = <<>> THEN val ELSE PyInt(val)[1]
           [] target_type = "decimal" -> IF PyFloat(val) = <<>> THEN val ELSE PyFloat(val)[1]
           [] target_type = "boolean" -> IF val.ty = "bool" THEN val ELSE PyBool(PyTruthText(val))
           [] OTHER -> [ty |-> "str", rep |-> val.rep]

\* logical_doc.get("fields_map", {}) if isinstance(logical_doc, dict) else {}
FieldsMapOf(logical_doc) == IF logical_doc.isdict THEN logical_doc.fields_map ELSE EmptyMap

\* (a variant that drops the fields the logical schema does not know)
ExtrasOfDropped(doc, fields_map) == [k \in {} |-> TvNone]

\* extras: the fields of doc that are not in fields_map
ExtrasOf(doc, fields_map) == [k \in DOMAIN doc.kv \ DOMAIN fields_map |-> doc.kv[k]]

\* (a variant that stamps no time)
StampOmitted(israw, now) == <<>>

\* out["_normalized_at"]: absent (<<>>) from the {"_raw": doc} answer
Stamp(israw, now) == IF israw THEN <<>> ELSE <<nowz(now)>>

\* transform_doc_best_effort at instant now. The result is given by its parts:
\* raw is <<doc>> for the answer {"_raw": doc}; top holds the keys of the schema,
\* extra is <<>> when "_extra" is absent, normalized_at is <<>> when it is absent
transform_doc_best_effort(doc, logical_doc, now) ==
    LET fields_map == FieldsMapOf(logical_doc)
        extras == ExtrasOf(doc, fields_map)
    IN  IF ~doc.isdict
        THEN [raw |-> <<doc>>, top |-> EmptyMap, extra |-> <<>>, normalized_at |-> Stamp(TRUE, now)]
        ELSE [raw |-> <<>>,
              top |-> [k \in DOMAIN doc.kv \cap DOMAIN fields_map |->
                         IF ChosenTarget(fields_map[k].types) # <<>>
                         THEN cast_value(doc.kv[k], ChosenTarget(fields_map[k].types)[1])
                         ELSE doc.kv[k]],
              extra |-> IF DOMAIN extras # {} THEN <<extras>> ELSE <<>>,
              normalized_at |-> Stamp(FALSE, now)]

\* Inputs of the transformer
FieldPool == <<NameX, NameY, <<"z">>>>
TransformFields == {FieldPool[i] : i \in 1..MaxTransformFields}
TransformValues == {TvInt, TvFloat, TvTrue, TvStrNum, TvStrA, TvNone, TvDict}

\* the type-tag sets of the schemas of the model
TransformTypes ==
    {{"int"}, {"float"}, {"bool"}, {"str"}, {"int", "str"}, {"bool", "float"}, {"NoneType", "str"}}

TransformDocs ==
    {NotADict} \cup
    {Dict(f) : f \in UNION {[ks -> TransformValues] : ks \in SUBSET TransformFields}}

\* a logical document as evolve_schema builds it (every field with at least one
\* type tag, no field name starting with "_"), or None
TransformLogicalDocs ==
    {[isdict |-> FALSE, fields_map |-> EmptyMap]} \cup
    {[isdict |-> TRUE, fields_map |-> [k \in DOMAIN f |-> [name |-> k, types |-> f[k]]]] :
        f \in UNION {[ks -> TransformTypes] : ks \in SUBSET {NameX, NameY}}}

TransformInit ==
    /\ arg \in [doc : TransformDocs, logical_doc : TransformLogicalDocs, now : {2, 3}]
    /\ ret = <<>>

Transform ==
    /\ ret = <<>>
    /\ ret' = <<transform_doc_best_effort(arg.doc, arg.logical_doc, arg.now)>>
    /\ UNCHANGED arg

-----------------------------------------------------------------------------
(* etl/storage.py: write_records and the record indices *)

\* A JSON file is absent (<<>>), readable (<<[ok |-> TRUE, data |-> list]>>) or
\* present with a text json.load rejects (<<[ok |-> FALSE, data |-> <<>>]>>)
AbsentFile == <<>>
GoodFile(data) == <<[ok |-> TRUE, data |-> data]>>
BrokenFile == <<[ok |-> FALSE, data |-> <<>>]>>

ReadOutcomes == {"ok", "fail"}
WriteOutcomes == {"ok", "fail_open", "fail_write"}

\* existing = [] ; if os.path.exists(p): try: existing = json.load(f) except: existing = []
LoadIndex(file, outcome) ==
    IF file # AbsentFile /\ file[1].ok /\ outcome = "ok" THEN file[1].data ELSE <<>>

\* (a variant in which a failed dump leaves the old file in place)
DumpIndexKeepOld(file, data, outcome) ==
    IF outcome = "ok" THEN GoodFile(data) ELSE file

\* try: with open(p, "w") as f: json.dump(data, f) except Exception: pass
DumpIndex(file, data, outcome) ==
    CASE outcome = "ok"         -> GoodFile(data)
      [] outcome = "fail_open"  -> file        \* open() failed: the file is untouched
      [] outcome = "fail_write" -> BrokenFile  \* truncated by open(), then the dump failed

TextKey == <<"_", "t", "e", "x", "t">>

\* _prepare(rec): the record with the three ids added
prepare(rec, file_id, logical_id, instance_schema_id) ==
    [fields |-> rec.kv, file_id |-> file_id, logical_id |-> logical_id,
     instance_schema_id |-> instance_schema_id]

\* dict(kv_pairs)
KvDict(kv_pairs) ==
    Dict([k \in {kv_pairs[i][1] : i \in 1..Len(kv_pairs)} |->
            kv_pairs[CHOOSE i \in 1..Len(kv_pairs) :
                        kv_pairs[i][1] = k /\ \A j \in (i + 1)..Len(kv_pairs) : kv_pairs[j][1] # k][2]])

\* out: the records of one bundle, in the order json, csv, html, kv, raw text
CollectRecords(fragments, file_id, logical_id, instance_schema_id) ==
    LET frs == fragments.json_fragments \o fragments.csv_fragments \o fragments.html_tables
               \o (IF fragments.kv_pairs # <<>> THEN <<KvDict(fragments.kv_pairs)>> ELSE <<>>)
               \o (IF fragments.raw_text # <<>>
                   THEN <<Dict([k \in {TextKey} |->
                                  [ty |-> "str",
                                   rep |-> SubSeq(fragments.raw_text, 1,
                                                  IF Len(fragments.raw_text) < 200
                                                  THEN Len(fragments.raw_text) ELSE 200)]])>>
                   ELSE <<>>)
    IN  [i \in 1..Len(frs) |-> prepare(frs[i], file_id, logical_id, instance_schema_id)]

\* raw_doc = {k: v for k, v in rec.items() if not k.startswith("_")}
RawDocOf(rec) ==
    Dict([k \in {f \in DOMAIN rec.fields : ~(f # <<>> /\ f[1] = "_")} |-> rec.fields[k]])

\* a normalized record that carries none of the ids of rec
NormalizedOfNoIds(rec, logical_doc, now) ==
    [doc |-> transform_doc_best_effort(RawDocOf(rec), logical_doc, now),
     file_id |-> 0, logical_id |-> "", instance_schema_id |-> 0]

\* the normalized record of rec: the transformed document with the three ids
NormalizedOf(rec, logical_doc, now) ==
    [doc |-> transform_doc_best_effort(RawDocOf(rec), logical_doc, now),
     file_id |-> rec.file_id, logical_id |-> rec.logical_id,
     instance_schema_id |-> rec.instance_schema_id]

\* The bundles of the model (values as json.load and the extractor type them)
RecordBundles ==
    { [json_fragments |-> <<>>, csv_fragments |-> <<>>, html_tables |-> <<>>,
       kv_pairs |-> <<>>, raw_text |-> <<>>],
      [json_fragments |-> <<Dict([k \in {NameX} |-> TvInt])>>, csv_fragments |-> <<>>,
       html_tables |-> <<>>, kv_pairs |-> <<>>, raw_text |-> <<"{", "}">>],
      [json_fragments |-> <<>>, csv_fragments |-> <<>>,
       html_tables |-> <<Dict([k \in {NameX} |-> TvStrNum]), Dict([k \in {NameX} |-> TvStrA])>>,
       kv_pairs |-> << <<NameY, TvStrA>> >>, raw_text |-> <<"a">>] }

\* logical_doc: None, or the logical document evolve_schema returned
RecordLogicalDocs ==
    { [isdict |-> FALSE, fields_map |-> EmptyMap],
      [isdict |-> TRUE, fields_map |-> [k \in {NameX} |-> [name |-> k, types |-> {"int"}]]] }

\* no write_records call has been made
RecEmpty ==
    [raw |-> [s \in SourceIds |-> AbsentFile],      \* store/records/<source>/index.json
     norm |-> [s \in SourceIds |-> AbsentFile],     \* store/normalized/<source>/index.json
     perfile |-> [s \in SourceIds |-> {}],          \* the <file_id>.records.json files written
     calls |-> 0,                                   \* history: calls made
     fails |-> 0,                                   \* history: file operations made to fail
     unnormalized |-> 0,                            \* history: calls made with no logical document
     sent |-> [s \in SourceIds |-> <<>>],           \* history: the records of all calls, in order
     prev |-> [s \in SourceIds |-> AbsentFile],     \* history: raw index before the latest call
     result |-> <<>>]                               \* what the latest call returned

RecInit == recstore = RecEmpty

\* One write_records call, from its first line to its return
WriteRecords(source_id, fragments, logical_doc, raw_rd, raw_wr, norm_rd, norm_wr, pf_wr) ==
    LET file_id == recstore.calls + 1
        out == CollectRecords(fragments, file_id, "schema_log", file_id)
        nfail == Cardinality({i \in 1..5 :
                     <<raw_rd, raw_wr, norm_rd, norm_wr, pf_wr>>[i] # "ok"})
        existing == LoadIndex(recstore.raw[source_id], raw_rd)
        n_existing == LoadIndex(recstore.norm[source_id], norm_rd)
        normalized_out == [i \in 1..Len(out) |-> NormalizedOf(out[i], logical_doc, clock)]
    IN  /\ recstore.calls < MaxWrites
        /\ recstore.fails + nfail <= MaxRecordIoFailures
        /\ recstore.raw[source_id] = AbsentFile => raw_rd = "ok"
        /\ (recstore.norm[source_id] = AbsentFile \/ ~logical_doc.isdict) => norm_rd = "ok"
        /\ ~logical_doc.isdict => norm_wr = "ok"
        /\ recstore' =
             [raw |-> [recstore.raw EXCEPT
                          ![source_id] = DumpIndex(@, existing \o out, raw_wr)],
              norm |-> IF logical_doc.isdict
                       THEN [recstore.norm EXCEPT
                                ![source_id] = DumpIndex(@, n_existing \o normalized_out, norm_wr)]
                       ELSE recstore.norm,
              perfile |-> [recstore.perfile EXCEPT
                              ![source_id] = IF pf_wr = "ok" THEN @ \cup {file_id} ELSE @],
              calls |-> recstore.calls + 1,
              fails |-> recstore.fails + nfail,
              unnormalized |-> recstore.unnormalized + (IF logical_doc.isdict THEN 0 ELSE 1),
              sent |-> [recstore.sent EXCEPT ![source_id] = @ \o out],
              prev |-> recstore.raw,
              result |-> <<[source_id |-> source_id, out |-> out, saved_count |-> Len(out)]>>]
        /\ UNCHANGED <<regvars, fnvars, up>>

RecNext ==
    \E s \in SourceIds, b \in RecordBundles, ld \in RecordLogicalDocs,
       rr \in ReadOutcomes, rw \in WriteOutcomes, nr \in ReadOutcomes, nw \in WriteOutcomes,
       pw \in {"ok", "fail_open"} :
        WriteRecords(s, b, ld, rr, rw, nr, nw, pw)

-----------------------------------------------------------------------------
(* app/api/upload.py, app/api/errors.py: failed uploads and the error log *)

\* what str(exc) and the traceback of an exception of the model tell
ExcTexts == {"OSError: File name too long", "ValueError: embedded null byte"}

\* f"err_{uuid.uuid4().hex[:8]}": the n-th id drawn
ErrIds == <<"err_1", "err_2", "err_3", "err_4", "err_5">>

\* A value of a response or of a log entry: its kind and its text
Const(text) == [kind |-> "const", val |-> text]

\* _log_exception builds this entry for the n-th failure
LogEntry(n, exc, source_id) ==
    [id        |-> [kind |-> "error_id", val |-> ErrIds[n]],
     time      |-> [kind |-> "time", val |-> ErrIds[n]],      \* the instant of the n-th failure
     context   |-> [kind |-> "context", val |-> source_id],
     traceback |-> [kind |-> "traceback", val |-> exc],
     exc_str   |-> [kind |-> "exc_text", val |-> exc]]

\* HTTPException(status_code=500, detail={...}) of upload_file
UploadErrorResponse(n) ==
    [endpoint |-> "/upload", status |-> 500,
     body |-> [error_short |-> Const("internal_server_error"),
               error_id    |-> [kind |-> "error_id", val |-> ErrIds[n]],
               hint        |-> Const("check store/errors.log for full traceback")]]

\* last_error(): the last entry of store/errors.log, as it was logged
LastErrorResponse(entries) ==
    IF entries = <<>>
    THEN [endpoint |-> "/last_error", status |-> 404, body |-> [detail |-> Const("no error log")]]
    ELSE [endpoint |-> "/last_error", status |-> 200, body |-> entries[Len(entries)]]

\* store/errors.log is empty and no id has been drawn
ErrInit == errlog = [entries |-> <<>>, drawn |-> 0]

\* upload_file, lines 124-136: no step raised
UploadReturns(source_id) ==
    /\ ret' = <<[endpoint |-> "/upload", status |-> 200,
                 body |-> [status |-> Const("ok"),
                           source_id |-> [kind |-> "context", val |-> source_id]]]>>
    /\ UNCHANGED <<regvars, arg, up, recstore, errlog>>

\* upload_file, lines 138-147: a step of the handler raised exc
UploadRaises(source_id, exc, log_io) ==
    LET n == errlog.drawn + 1
    IN  /\ errlog.drawn < MaxErrors
        /\ errlog' = [entries |-> IF log_io = "ok"
                                  THEN Append(errlog.entries, LogEntry(n, exc, source_id))
                                  ELSE errlog.entries,     \* the entry is printed instead
                      drawn |-> n]
        /\ ret' = <<UploadErrorResponse(n)>>
        /\ UNCHANGED <<regvars, arg, up, recstore>>

\* GET /last_error
LastError ==
    /\ ret' = <<LastErrorResponse(errlog.entries)>>
    /\ UNCHANGED <<regvars, arg, up, recstore, errlog>>

ErrNext ==
    \/ \E s \in SourceIds : UploadReturns(s)
    \/ \E s \in SourceIds, exc \in ExcTexts, io \in {"ok", "fail"} : UploadRaises(s, exc, io)
    \/ LastError

-----------------------------------------------------------------------------
(* etl/schema_registry.py: _merge_field_meta and compute_diff on their own *)

\* the type-tag sets and the examples of the entries of the model
MetaTypes == {{"int"}, {"str"}, {"int", "str"}}
MetaExamples == {IntOne, IntZero, StrA, PyNone}

\* entries an earlier call stored: seen from first_seen to last_seen, count times
StoredMetas ==
    {[name |-> NameX, types |-> ts, count |-> c, first_seen |-> f, last_seen |-> l, example |-> e] :
        ts \in MetaTypes, c \in 1..MaxMergeCount, f \in 1..MaxMergeCount,
        l \in 1..MaxMergeCount, e \in MetaExamples}

\* the old entry and the entry _properties_to_fields_map makes of the new
\* observation, which is later than everything stored
MergeInit ==
    /\ arg \in {[old_meta |-> o,
                 new_meta |-> make_field_meta(NameX, ts, e, MaxMergeCount + 1)] :
                    o \in {m \in StoredMetas : m.first_seen <= m.last_seen},
                    ts \in MetaTypes, e \in MetaExamples}
    /\ ret = <<>>

\* merged_map[fname] = self._merge_field_meta(merged_map.get(fname), meta)
Merge ==
    /\ ret = <<>>
    /\ ret' = <<merge_field_meta(arg.old_meta, arg.new_meta)>>
    /\ UNCHANGED arg

\* the fields maps of the model: entries for some of x, y with their type tags
DiffMaps ==
    {[k \in DOMAIN f |-> make_field_meta(k, f[k], IntOne, 1)] :
        f \in UNION {[ks -> MetaTypes] : ks \in SUBSET {FieldPool[i] : i \in 1..MaxDiffFields}}}

DiffInit ==
    /\ arg \in [old_fields_map : DiffMaps, new_fields_map : DiffMaps]
    /\ ret = <<>>

\* diff = self.compute_diff(old_map, promoted_map)
ComputeDiff ==
    /\ ret = <<>>
    /\ ret' = <<compute_diff(arg.old_fields_map, arg.new_fields_map)>>
    /\ UNCHANGED arg

-----------------------------------------------------------------------------
(* etl/schema_generator.py: infer_field_types on its own *)

\* values of every class of the tally: an int, a decimal text, a boolean text,
\* a date text, a dict, a list, and a text of no class
InferValues ==
    {IntOne, [ty |-> "str", rep |-> "2.5"], [ty |-> "str", rep |-> "true"],
     [ty |-> "str", rep |-> "2020-01-02"], ObjV, ArrV, StrA}

\* candidate documents: a non-dict, the empty dict, and dicts with the field a
InferDocs == {NotADict, Dict(EmptyMap)} \cup {Dict([k \in {KeyA} |-> v]) : v \in InferValues}

InferInit ==
    /\ arg \in [docs : SeqsUpTo(InferDocs, MaxInferDocs)]
    /\ ret = <<>>

\* field_types = infer_field_types(docs)
InferTypes ==
    /\ ret = <<>>
    /\ ret' = <<infer_field_types(arg.docs)>>
    /\ UNCHANGED arg

-----------------------------------------------------------------------------
(* etl/parser.py: _extract_brace_jsons on its own *)

\* texts of braces and one other character
BraceChars == {"{", "}", "a"}

BraceInit ==
    /\ arg \in [text : SeqsUpTo(BraceChars, MaxBraceLen)]
    /\ ret = <<>>

\* for frag in _extract_brace_jsons(text)
ExtractBraces ==
    /\ ret = <<>>
    /\ ret' = <<extract_brace_jsons(arg.text)>>
    /\ UNCHANGED arg

-----------------------------------------------------------------------------
(* etl/schema_generator.py: detect_storage_type on reordered documents *)

\* candidate documents with two different key sets
OrderDocs == {Dict([k \in {KeyA} |-> IntOne]), Dict([k \in {KeyB} |-> IntOne])}

\* the orders of n items
Orders(n) == {o \in [1..n -> 1..n] : \A i, j \in 1..n : i # j => o[i] # o[j]}

Reordered(docs, o) == [i \in 1..Len(docs) |-> docs[o[i]]]

OrderInit ==
    /\ arg \in [docs : SeqsUpTo(OrderDocs, MaxOrderDocs),
                fragments : [csv_fragments : {<<>>}, html_tables : {<<>>}, kv_pairs : Presence]]
    /\ ret = <<>>

\* a second call, on the same documents in the order o
DecideReordered(o) ==
    /\ Len(ret) = 1
    /\ ret' = <<ret[1], [order |-> o,
                         answer |-> detect_storage_type(Reordered(arg.docs, o), arg.fragments)]>>
    /\ UNCHANGED arg

OrderNext == Decide \/ \E o \in Orders(Len(arg.docs)) : DecideReordered(o)

-----------------------------------------------------------------------------
(* etl/fragment_processor.py: process_fragments *)

\* A fragment item is a Python dict, list or tuple
DictItem(f) == [py |-> "dict", val |-> Dict(f)]
ListItem(items) == [py |-> "list", val |-> items]
TupleItem(k, v) == [py |-> "tuple", val |-> <<k, v>>]

OneChar(c) == [ty |-> "str", rep |-> <<c>>]

\* {k: v for k, v in frag} for a tuple (key, value) of two strings: each string is
\* unpacked into k, v, which raises unless it has exactly two characters
PairsOfStrings(frag) ==
    IF \A i \in 1..Len(frag) : Len(frag[i]) = 2
    THEN <<Dict([k \in {<<frag[i][1]>> : i \in 1..Len(frag)} |->
                   OneChar(frag[CHOOSE i \in 1..Len(frag) :
                                   /\ <<frag[i][1]>> = k
                                   /\ \A j \in (i + 1)..Len(frag) : <<frag[j][1]>> # k][2])])>>
    ELSE <<>>   \* the fallback loop finds no list or tuple among the strings

\* the dict elements of a list fragment
DictsOf(items) ==
    LET ds == SelectSeq(items, LAMBDA x : x.py = "dict")
    IN  [i \in 1..Len(ds) |-> ds[i].val]

\* (a variant that yields every dict fragment twice)
rows_from_fragment_twice(fragment_type, frag) ==
    IF frag.py = "dict" THEN <<frag.val, frag.val>>
    ELSE IF frag.py = "list" THEN DictsOf(frag.val)
    ELSE IF fragment_type = "kv" THEN PairsOfStrings(frag.val)
    ELSE <<>>

\* _rows_from_fragment for the groups json, csv, html_table and kv
rows_from_fragment(fragment_type, frag) ==
    IF frag.py = "dict" THEN <<frag.val>>
    ELSE IF frag.py = "list" THEN DictsOf(frag.val)
    ELSE IF fragment_type = "kv" THEN PairsOfStrings(frag.val)
    ELSE <<>>

\* the bundle handed to detect_storage_type for one fragment
NoFragments == [csv_fragments |-> <<>>, html_tables |-> <<>>, kv_pairs |-> <<>>]

\* groups: the items of the four groups with their kinds, in the order of the loop
FragmentGroups(fragments) ==
    [i \in 1..Len(fragments.json_fragments) |-> [kind |-> "json", item |-> fragments.json_fragments[i]]]
    \o [i \in 1..Len(fragments.csv_fragments) |-> [kind |-> "csv", item |-> fragments.csv_fragments[i]]]
    \o [i \in 1..Len(fragments.html_tables) |-> [kind |-> "html_table", item |-> fragments.html_tables[i]]]
    \o [i \in 1..Len(fragments.kv_pairs) |-> [kind |-> "kv", item |-> fragments.kv_pairs[i]]]

\* which generator fills "generated"
GeneratedKey(frag_type) ==
    CASE frag_type = "sql" -> "sql" [] frag_type = "nosql" -> "mongo" [] OTHER -> "json_schema"

\* frag_meta of the idx-th item of the groups (id and created_at left out); sink is
\* the store the fragment is applied to: generate_sql_schema gives an empty ddl
\* only for no rows
GroupMeta(idx, g) ==
    LET rows == rows_from_fragment(g.kind, g.item)
        decision == detect_storage_type(rows, NoFragments)
    IN  [fragment_index |-> idx, fragment_kind |-> g.kind, rows_count |-> Len(rows),
         storage_decision |-> decision, generated |-> GeneratedKey(decision.type),
         sample_rows |-> SubSeq(rows, 1, IF Len(rows) < 5 THEN Len(rows) ELSE 5),
         sink |-> IF decision.type = "sql" /\ rows # <<>> THEN "apply_sql_ddl_and_insert"
                  ELSE IF decision.type = "nosql" THEN "create_collection_with_validator"
                  ELSE "none"]

\* frag_meta of the raw text: decided on the candidate documents of the upload
RawMeta(idx, raw, candidate_docs) ==
    [fragment_index |-> idx, fragment_kind |-> "raw", rows_count |-> 1,
     storage_decision |-> [type |-> detect_storage_type(candidate_docs, NoFragments).type,
                           reason |-> Reason("raw_text_fallback", 0, 0, 0)],
     generated |-> "json_schema",
     sample_rows |-> <<Dict([k \in {TextKey} |->
                              [ty |-> "str",
                               rep |-> SubSeq(raw, 1, IF Len(raw) < 200 THEN Len(raw) ELSE 200)]])>>,
     sink |-> "none"]

\* every frag_meta process_fragments builds when no write fails
AllMetas(fragments, candidate_docs) ==
    LET gs == FragmentGroups(fragments)
    IN  [i \in 1..Len(gs) |-> GroupMeta(i, gs[i])]
        \o (IF fragments.raw_text # <<>>
            THEN <<RawMeta(Len(gs) + 1, fragments.raw_text, candidate_docs)>> ELSE <<>>)

\* upload_file: the candidate documents of a bundle
CandidateDocsOf(fragments) ==
    LET js == DictsOf(fragments.json_fragments)
        kv == IF fragments.kv_pairs # <<>>
              THEN <<Dict([k \in {fragments.kv_pairs[i].val[1] : i \in 1..Len(fragments.kv_pairs)} |->
                             [ty |-> "str",
                              rep |-> fragments.kv_pairs[
                                        CHOOSE i \in 1..Len(fragments.kv_pairs) :
                                          /\ fragments.kv_pairs[i].val[1] = k
                                          /\ \A j \in (i + 1)..Len(fragments.kv_pairs) :
                                                fragments.kv_pairs[j].val[1] # k].val[2]]])>>
              ELSE <<>>
    IN  IF js \o kv = <<>> /\ fragments.raw_text # <<>>
        THEN <<Dict([k \in {TextKey} |-> [ty |-> "str", rep |-> fragments.raw_text]])>>
        ELSE js \o kv

\* Inputs: bundles as the extractor shapes them (dict items, (key, value) tuples of
\* strings), with a raw text whenever there is a fragment
FragJsons == {DictItem([k \in {KeyA} |-> IntOne]), DictItem([k \in {KeyA} |-> ObjV]),
              DictItem([k \in {KeyB} |-> IntOne])}
FragPairs == {TupleItem(<<"i", "d">>, <<"4", "2">>), TupleItem(<<"A", "g", "e">>, <<"3", "0">>)}
FragRows == {<<>>, <<DictItem([k \in {KeyA} |-> IntOne]), DictItem([k \in {KeyA} |-> IntOne])>>}

FragBundles ==
    {b \in [json_fragments : SeqsUpTo(FragJsons, MaxFragJsons), csv_fragments : FragRows,
            html_tables : FragRows, kv_pairs : SeqsUpTo(FragPairs, MaxFragPairs),
            raw_text : {<<>>, <<"a">>}] :
        FragmentGroups(b) # <<>> => b.raw_text # <<>>}

\* the most fragments a bundle of the model holds: two rows in each table group, the raw text
MaxFragments == MaxFragJsons + MaxFragPairs + 5

FragInit == arg \in [fragments : FragBundles] /\ ret = <<>>

\* One process_fragments call of the upload handler. failing is the position of the
\* fragment whose metadata file cannot be written (0: every write succeeds); the
\* exception of _write_fragment_output leaves the function.
ProcessFragments(failing) ==
    LET metas == AllMetas(arg.fragments, CandidateDocsOf(arg.fragments))
        done == IF failing = 0 THEN metas ELSE SubSeq(metas, 1, failing)
    IN  /\ ret = <<>>
        /\ failing <= Len(metas)
        /\ ret' = <<[raised |-> failing # 0,
                     frag_list |-> IF failing = 0 THEN metas ELSE <<>>,
                     sinks |-> [i \in 1..Len(done) |-> done[i].sink]]>>
        /\ UNCHANGED arg

FragNext == \E failing \in 0..MaxFragments : ProcessFragments(failing)

-----------------------------------------------------------------------------
(* Specifications *)

\* the schema registry under a sequence of evolve_schema calls
Init == RegInit /\ FnIdle /\ UpIdle /\ RecInit /\ ErrInit
Spec == Init /\ [][RegNext /\ UNCHANGED <<fnvars, up, recstore, errlog>>]_vars

\* detect_storage_type applied to one argument list
InitDecide == RegInit /\ DecInit /\ UpIdle /\ RecInit /\ ErrInit
SpecDecide == InitDecide /\ [][Decide /\ UNCHANGED <<regvars, up, recstore, errlog>>]_vars

\* the fragment extractor applied to one input
InitParse == RegInit /\ ParseInit /\ UpIdle /\ RecInit /\ ErrInit
SpecParse == InitParse /\ [][ParseNext /\ UNCHANGED <<regvars, up, recstore, errlog>>]_vars

\* concurrent /upload requests on one event loop
InitUp == RegInit /\ FnIdle /\ UpInit /\ RecInit /\ ErrInit
SpecUp == InitUp /\ [][UpNext /\ UNCHANGED <<recstore, errlog>>]_vars

\* transform_doc_best_effort applied to one document and one logical schema
InitTransform == RegInit /\ TransformInit /\ UpIdle /\ RecInit /\ ErrInit
SpecTransform == InitTransform /\ [][Transform /\ UNCHANGED <<regvars, up, recstore, errlog>>]_vars

\* write_records calls on the record files
InitRec == RegInit /\ FnIdle /\ UpIdle /\ RecInit /\ ErrInit
SpecRec == InitRec /\ [][RecNext /\ UNCHANGED errlog]_vars

\* _merge_field_meta applied to one stored entry and one new observation
InitMerge == RegInit /\ MergeInit /\ UpIdle /\ RecInit /\ ErrInit
SpecMerge == InitMerge /\ [][Merge /\ UNCHANGED <<regvars, up, recstore, errlog>>]_vars

\* compute_diff applied to one pair of fields maps
InitDiff == RegInit /\ DiffInit /\ UpIdle /\ RecInit /\ ErrInit
SpecDiff == InitDiff /\ [][ComputeDiff /\ UNCHANGED <<regvars, up, recstore, errlog>>]_vars

\* infer_field_types applied to one document list
InitInfer == RegInit /\ InferInit /\ UpIdle /\ RecInit /\ ErrInit
SpecInfer == InitInfer /\ [][InferTypes /\ UNCHANGED <<regvars, up, recstore, errlog>>]_vars

\* _extract_brace_jsons applied to one text
InitBrace == RegInit /\ BraceInit /\ UpIdle /\ RecInit /\ ErrInit
SpecBrace == InitBrace /\ [][ExtractBraces /\ UNCHANGED <<regvars, up, recstore, errlog>>]_vars

\* detect_storage_type applied to one document list in two orders
InitOrder == RegInit /\ OrderInit /\ UpIdle /\ RecInit /\ ErrInit
SpecOrder == InitOrder /\ [][OrderNext /\ UNCHANGED <<regvars, up, recstore, errlog>>]_vars

\* process_fragments on the bundles of the extractor
InitFrag == RegInit /\ FragInit /\ UpIdle /\ RecInit /\ ErrInit
SpecFrag == InitFrag /\ [][FragNext /\ UNCHANGED <<regvars, up, recstore, errlog>>]_vars

\* failed uploads and GET /last_error
InitErr == RegInit /\ FnIdle /\ UpIdle /\ RecInit /\ ErrInit
SpecErr == InitErr /\ [][ErrNext]_vars

\* generate_sql_schema applied to one document list
InitDdl == RegInit /\ DdlInit /\ UpIdle /\ RecInit /\ ErrInit
SpecDdl == InitDdl /\ [][GenerateSql /\ UNCHANGED <<regvars, up, recstore, errlog>>]_vars

-----------------------------------------------------------------------------
(* Properties of the schema registry *)

PlainNames == {NameX, NameY}

\* C1 (as claimed): on a source with no logical schema, after a first call whose
\* docs contain field f the returned fields_map lacks f, and after a second call
\* whose docs again contain f the returned fields_map holds f with count 2 and the
\* diff of that call lists f in 'added'.
C1_ScenarioD ==
    \A d \in Dirs : \A f \in PlainNames :
        (/\ Len(hist[d]) >= 2
         /\ hist[d][1].clean /\ hist[d][2].clean
         /\ f \in hist[d][1].fields /\ f \in hist[d][2].fields)
        => /\ f \notin DOMAIN hist[d][1].fields_map
           /\ f \in DOMAIN hist[d][2].fields_map
           /\ hist[d][2].fields_map[f].count = 2
           /\ f \in hist[d][2].diff.added

C10_WriteFailureContained ==
    last # <<>> =>
        LET r == last[1]
        IN  /\ ~r.raised
            /\ r.logical_id = r.logical_doc.logical_id
            /\ r.instance_id = r.instance_doc.schema_instance_id
            /\ r.instance_doc.storage_error <=> (r.inst_io # "ok")
            /\ r.logical_doc.storage_error <=> (r.log_io # "ok")

C10_Witness ==
    /\ last # <<>>
    /\ last[1].inst_io # "ok" /\ last[1].log_io = "ok"
    /\ last[1].instance_doc.storage_error /\ ~last[1].logical_doc.storage_error

-----------------------------------------------------------------------------
(* Properties of the storage decision *)

DictIdx(docs) == {i \in 1..Len(docs) : docs[i].isdict}

HasNested(docs) ==
    \E i \in DictIdx(docs) : \E k \in DOMAIN docs[i].kv : docs[i].kv[k].ty \in {"dict", "list"}

\* at least 2 documents, all dicts with one identical non-empty key set, all values scalar
FlatUniform(docs) ==
    /\ Len(docs) >= 2
    /\ \A i \in 1..Len(docs) :
          /\ docs[i].isdict
          /\ DOMAIN docs[i].kv = DOMAIN docs[1].kv
          /\ DOMAIN docs[i].kv # {}
          /\ \A k \in DOMAIN docs[i].kv : docs[i].kv[k].ty \notin {"dict", "list"}

NoTables(fragments) == fragments.csv_fragments = <<>> /\ fragments.html_tables = <<>>

\* C4: for at least 2 documents that share one non-empty key set and hold only
\* scalar values, detect_storage_type returns sql.
C4_FlatUniformIsSql ==
    (ret # <<>> /\ FlatUniform(arg.docs)) => ret[1].type = "sql"

C4_Witness ==
    /\ ret # <<>>
    /\ FlatUniform(arg.docs)
    /\ NoTables(arg.fragments)
    /\ ret[1].reason.cols = 2

\* C5 (as claimed): whenever some document has a nested object or array value,
\* detect_storage_type returns nosql with a reason citing the number of documents
\* that have a nested value.
C5_NestedIsNosql ==
    (ret # <<>> /\ HasNested(arg.docs)) =>
        /\ ret[1].type = "nosql"
        /\ ret[1].reason.text = "found nested structures in N docs"
        /\ ret[1].reason.n =
              Cardinality({i \in DictIdx(arg.docs) :
                  \E k \in DOMAIN arg.docs[i].kv : arg.docs[i].kv[k].ty \in {"dict", "list"}})

\* C5 (amended): the same, for a fragment bundle with no CSV fragment and no HTML
\* table.
C5_NestedIsNosqlWithoutTables ==
    (ret # <<>> /\ HasNested(arg.docs) /\ NoTables(arg.fragments)) =>
        /\ ret[1].type = "nosql"
        /\ ret[1].reason.text = "found nested structures in N docs"
        /\ ret[1].reason.n =
              Cardinality({i \in DictIdx(arg.docs) :
                  \E k \in DOMAIN arg.docs[i].kv : arg.docs[i].kv[k].ty \in {"dict", "list"}})

C5_Witness ==
    /\ ret # <<>>
    /\ NoTables(arg.fragments)
    /\ Len(arg.docs) = 3
    /\ \A i \in 1..3 : arg.docs[i].isdict /\ DOMAIN arg.docs[i].kv = {KeyA, KeyB}
    /\ arg.docs[1].kv[KeyA] = IntOne /\ arg.docs[1].kv[KeyB] = IntOne
    /\ arg.docs[2].kv[KeyB] = ArrV
    /\ arg.docs[3].kv[KeyA] = ObjV
    /\ ret[1].type = "nosql" /\ ret[1].reason.n = 2

-----------------------------------------------------------------------------
(* Properties of the DDL generation *)

ColumnNames(r) == {r.ddl.cols[k].colname : k \in DOMAIN r.ddl.cols}

\* every character outside [A-Za-z0-9_] replaced by '_', then lowercased
Normalised(k) ==
    [i \in 1..Len(k) |->
        IF k[i] \in UpperChars THEN LowerChar(k[i])
        ELSE IF k[i] \in LowerChars \cup DigitChars \cup {"_"} THEN k[i]
        ELSE "_"]

IsSqlSafe(k) == \A i \in 1..Len(k) : k[i] \in LowerChars \cup DigitChars \cup {"_"}

\* C7 (as claimed): the set of column names of the CREATE TABLE statement equals
\* the set of field names infer_field_types returns for the same documents.
C7_ColumnsEqualFields ==
    ret # <<>> => ColumnNames(ret[1]) = DOMAIN infer_field_types(arg.docs)

\* C7 (amended): the set of column names equals the set of normalised field names
\* (characters outside [A-Za-z0-9_] replaced by '_', then lowercased), and equals
\* the set of field names when every field name is made of a-z, 0-9 and '_' only.
C7_ColumnsAreNormalisedFields ==
    ret # <<>> =>
        LET fields == DOMAIN infer_field_types(arg.docs)
        IN  /\ ColumnNames(ret[1]) = {Normalised(k) : k \in fields}
            /\ (\A k \in fields : IsSqlSafe(k)) => ColumnNames(ret[1]) = fields

C7_Witness ==
    /\ ret # <<>>
    /\ Len(arg.docs) = 2
    /\ DOMAIN ret[1].fields = {<<"A">>, <<"a", "-", "b">>, <<"a", "_", "b">>}
    /\ ColumnNames(ret[1]) = {<<"a">>, <<"a", "_", "b">>}

-----------------------------------------------------------------------------
(* Properties of the fragment extractor *)

\* the keys of an ordered dict
KeysOf(rec) == {rec[i][1] : i \in 1..Len(rec)}

\* the table records a returned value holds
TableRecordsOf(r) ==
    IF r.op = "bundle"
    THEN {r.value.csv_fragments[i] : i \in 1..Len(r.value.csv_fragments)}
         \cup {r.value.html_tables[i] : i \in 1..Len(r.value.html_tables)}
    ELSE IF r.op = "csv" THEN {r.value[i] : i \in 1..Len(r.value)}
    ELSE {}

\* the headers of the first table of the input, as extract_html_tables takes them
HeadersOf(table) ==
    {IF table[1][i] # <<>> THEN table[1][i] ELSE ColName(i - 1) : i \in 1..Len(table[1])}

\* C6: every key of every record of csv_fragments and html_tables is non-empty, at
\* most 60 characters long and made of a-z, 0-9 and '_' only; a header whose
\* sanitized form is empty or longer than 60 is dropped, the other headers are kept
\* (for a table whose first row is taken as the header row).
C6_SanitizedKeys ==
    ret # <<>> =>
        /\ \A rec \in TableRecordsOf(ret[1]) : \A k \in KeysOf(rec) :
              /\ k # <<>>
              /\ Len(k) <= 60
              /\ \A i \in 1..Len(k) : k[i] \in LowerChars \cup DigitChars \cup {"_"}
        /\ (ret[1].op = "bundle" /\ arg.kind = "html" /\ Len(arg.tables[1]) >= 2
            /\ \E i \in 1..Len(arg.tables[1][1]) : HasLetter(arg.tables[1][1][i])) =>
              \A i \in 1..Len(ret[1].value.html_tables) :
                 KeysOf(ret[1].value.html_tables[i]) =
                    {SanitizedKey(h) : h \in {g \in HeadersOf(arg.tables[1]) :
                        SanitizedKey(g) # <<>> /\ Len(SanitizedKey(g)) <= 60}}

C6_Witness ==
    /\ ret # <<>> /\ ret[1].op = "bundle" /\ arg.kind = "html"
    /\ arg.tables[1][1] = <<Pad("a", 60) \o <<" ", "b">>, <<"B">>>>
    /\ Len(ret[1].value.html_tables) = 1
    /\ KeysOf(ret[1].value.html_tables[1]) = {<<"b">>}

\* C8 (as claimed): for a text of N lines 'key: value' with safe keys, kv_pairs of
\* the bundle is the list of the N (key, value) pairs in line order, keys unchanged.
C8_KvPairsPerLine ==
    (ret # <<>> /\ ret[1].op = "bundle" /\ arg.kind = "kv") =>
        ret[1].value.kv_pairs = arg.lines

-----------------------------------------------------------------------------
(* Properties of concurrent uploads *)

\* the uploads of one source
UploadsOf(s) == {u \in Uploads : up.req[u].source_id = s}

\* the orders in which the uploads of U can run one after the other
OrdersOf(U) ==
    {o \in [1..Cardinality(U) -> U] : \A i, j \in 1..Cardinality(U) : i # j => o[i] # o[j]}

RECURSIVE SerialStore(_, _)
\* logical.json of each source after the evolve_schema calls of the uploads of
\* order have run one after the other, each to its end, on an empty store
SerialStore(order, t) ==
    IF order = <<>> THEN [d \in Dirs |-> <<>>]
    ELSE LET before == SerialStore(SubSeq(order, 1, Len(order) - 1), t - 1)
             r      == up.req[order[Len(order)]]
             e      == EvolveDocs(before, r.source_id, r.docs, t, t)
         IN  [before EXCEPT ![source_dir(r.source_id)] = <<e.logical_doc>>]

-----------------------------------------------------------------------------
(* Properties of the schema history *)

\* C11 (as claimed): get_schema_history returns all instance schemas of the source
\* in the chronological order of their creation.
C11_HistoryChronological ==
    \A s \in SourceIds :
        LET h == get_schema_history(instances, s)
        IN  /\ Len(h) = Len(instances[source_dir(s)])
            /\ \A i, j \in 1..Len(h) : i < j => h[i].generated_at < h[j].generated_at

\* the mapping from field name to set of type tags of a fields_map
TypeMapOf(fields_map) == [f \in DOMAIN fields_map |-> fields_map[f].types]

-----------------------------------------------------------------------------
(* Properties of the record files *)

\* the list a reader of the file finds (none in an absent or unreadable file)
IndexContent(file) == IF file # AbsentFile /\ file[1].ok THEN file[1].data ELSE <<>>

\* C13 (as claimed): after each write_records call the aggregated raw record index
\* of the source holds what it held before the call followed by the records of that
\* call, and the indices of the other sources are as they were.
C13_IndexAppendOnly ==
    recstore.result # <<>> =>
        LET s == recstore.result[1].source_id
        IN  /\ recstore.raw[s] # AbsentFile
            /\ recstore.raw[s][1].ok
            /\ recstore.raw[s][1].data = IndexContent(recstore.prev[s]) \o recstore.result[1].out
            /\ \A t \in SourceIds \ {s} : recstore.raw[t] = recstore.prev[t]


-----------------------------------------------------------------------------
(* C14 *)

\* C14: no response of the service carries the text or the traceback of an
\* exception an upload raised; a caller sees an error id and a fixed message.
C14_NoDetailInResponses ==
    ret # <<>> =>
        \A f \in DOMAIN ret[1].body : ret[1].body[f].kind \notin {"traceback", "exc_text"}


-----------------------------------------------------------------------------
(* C15, C16, C17 *)

\* the target the precedence integer > decimal > boolean > string gives a field
\* whose recorded type tags are types
TargetByPrecedence(types) ==
    LET has(sub) == \E t \in types : Contains(Lower(TagText(t)), sub)
    IN  IF has(<<"i", "n", "t">>) THEN "integer"
        ELSE IF has(<<"f", "l", "o", "a", "t">>) \/ has(<<"d", "e", "c", "i", "m", "a", "l">>)
             THEN "decimal"
        ELSE IF has(<<"b", "o", "o", "l">>) THEN "boolean"
        ELSE "string"

\* the Python type of the values of a target primitive
PrimitiveType(target) ==
    CASE target = "integer" -> "int"
      [] target = "decimal" -> "float"
      [] target = "boolean" -> "bool"
      [] OTHER -> "str"

\* the cast of val to target raises
CastFails(val, target) ==
    \/ target = "integer" /\ PyInt(val) = <<>>
    \/ target = "decimal" /\ PyFloat(val) = <<>>

\* C15: the transformer answers for every document and schema; a field of the
\* document that the schema knows holds, in the output, its value cast to the
\* target the precedence integer > decimal > boolean > string selects from its
\* type tags, and its original value when that cast fails (or the value is None).
C15_BestEffortCast ==
    (ret # <<>> /\ arg.doc.isdict) =>
        \A k \in DOMAIN arg.doc.kv \cap DOMAIN FieldsMapOf(arg.logical_doc) :
            LET v == arg.doc.kv[k]
                t == TargetByPrecedence(FieldsMapOf(arg.logical_doc)[k].types)
            IN  /\ k \in DOMAIN ret[1].top
                /\ IF v = TvNone \/ CastFails(v, t)
                   THEN ret[1].top[k] = v
                   ELSE ret[1].top[k].ty = PrimitiveType(t)

\* C15 witness: "a" under {int, str} stays "a" while " 07" under {int} becomes 7
C15_Witness ==
    /\ ret # <<>> /\ arg.doc.isdict /\ arg.logical_doc.isdict
    /\ DOMAIN arg.doc.kv = {NameX, NameY}
    /\ DOMAIN arg.logical_doc.fields_map = {NameX, NameY}
    /\ arg.doc.kv[NameX] = TvStrA /\ arg.logical_doc.fields_map[NameX].types = {"int", "str"}
    /\ arg.doc.kv[NameY] = TvStrNum /\ arg.logical_doc.fields_map[NameY].types = {"int"}
    /\ ret[1].top[NameX] = TvStrA
    /\ ret[1].top[NameY] = [ty |-> "int", rep |-> <<"7">>]


\* C16: the transformer drops no field of a document: a field the schema does
\* not know is in the output's _extra sub-map with its original value, and a
\* field the schema knows is at the top level of the output.
C16_NoFieldDropped ==
    (ret # <<>> /\ arg.doc.isdict) =>
        \A k \in DOMAIN arg.doc.kv :
            IF k \in DOMAIN FieldsMapOf(arg.logical_doc)
            THEN k \in DOMAIN ret[1].top
            ELSE /\ ret[1].extra # <<>>
                 /\ k \in DOMAIN ret[1].extra[1]
                 /\ ret[1].extra[1][k] = arg.doc.kv[k]

\* C16 witness: x is known to the schema and y is not; y is kept in _extra
C16_Witness ==
    /\ ret # <<>> /\ arg.doc.isdict /\ arg.logical_doc.isdict
    /\ DOMAIN arg.doc.kv = {NameX, NameY}
    /\ DOMAIN arg.logical_doc.fields_map = {NameX}
    /\ arg.doc.kv[NameY] = TvDict
    /\ NameX \in DOMAIN ret[1].top
    /\ ret[1].extra = <<[k \in {NameY} |-> TvDict]>>

-----------------------------------------------------------------------------
(* C18 *)

-----------------------------------------------------------------------------
(* C19 *)

\* C19: the diff of a previous and a new field set has as 'added' exactly the
\* names only the new set has, as 'removed' exactly the names only the previous
\* set has, and as 'type_changes' one entry {field, old, new} for exactly the
\* names of both sets whose type-tag sets differ.
C19_DiffExact ==
    ret # <<>> =>
        LET old == arg.old_fields_map
            new == arg.new_fields_map
            d == ret[1]
        IN  /\ \A k \in DOMAIN old \cup DOMAIN new :
                  /\ k \in d.added <=> (k \in DOMAIN new /\ k \notin DOMAIN old)
                  /\ k \in d.removed <=> (k \in DOMAIN old /\ k \notin DOMAIN new)
                  /\ Cardinality({e \in d.type_changes : e.field = k}) =
                        IF k \in DOMAIN old /\ k \in DOMAIN new /\ old[k].types # new[k].types
                        THEN 1 ELSE 0
            /\ d.added \cup d.removed \subseteq DOMAIN old \cup DOMAIN new
            /\ \A e \in d.type_changes :
                  /\ e.field \in DOMAIN old \cap DOMAIN new
                  /\ e.old = old[e.field].types
                  /\ e.new = new[e.field].types

\* C19 witness: y is added and the type tags of x changed from {int} to
\* {int, str}
C19_Witness ==
    /\ ret # <<>>
    /\ DOMAIN arg.old_fields_map = {NameX}
    /\ DOMAIN arg.new_fields_map = {NameX, NameY}
    /\ arg.old_fields_map[NameX].types = {"int"}
    /\ arg.new_fields_map[NameX].types = {"int", "str"}
    /\ ret[1] = [added |-> {NameY}, removed |-> {},
                 type_changes |-> {[field |-> NameX, old |-> {"int"}, new |-> {"int", "str"}]}]


-----------------------------------------------------------------------------
(* C20 *)

\* C20: detect_storage_type decides by its first rule that matches: a CSV
\* fragment gives sql "contains csv fragments"; else an HTML table gives sql
\* "contains html tables"; else, with no dict among the documents, the answer is
\* object, "only key:value pairs" when there are kv pairs and "no structured
\* docs found" when there are none; only then do the documents decide.
C20_RuleOrder ==
    ret # <<>> =>
        LET f == arg.fragments
            nodict == \A i \in 1..Len(arg.docs) : ~arg.docs[i].isdict
            fixed(type, text) == ret[1] = [type |-> type, reason |-> Reason(text, 0, 0, 0)]
        IN  CASE f.csv_fragments # <<>> -> fixed("sql", "contains csv fragments")
              [] f.csv_fragments = <<>> /\ f.html_tables # <<>> ->
                    fixed("sql", "contains html tables")
              [] NoTables(f) /\ nodict /\ f.kv_pairs # <<>> ->
                    fixed("object", "only key:value pairs")
              [] NoTables(f) /\ nodict /\ f.kv_pairs = <<>> ->
                    fixed("object", "no structured docs found")
              [] OTHER ->
                    ret[1].reason.text \notin
                        {"contains csv fragments", "contains html tables",
                         "only key:value pairs", "no structured docs found"}

\* C20 witness: a CSV fragment wins over an HTML table, kv pairs and a nested
\* document
C20_Witness ==
    /\ ret # <<>>
    /\ arg.fragments.csv_fragments # <<>>
    /\ arg.fragments.html_tables # <<>>
    /\ arg.fragments.kv_pairs # <<>>
    /\ HasNested(arg.docs)
    /\ ret[1].reason.text = "contains csv fragments"


-----------------------------------------------------------------------------
(* C21 *)

\* what C21 says of the answer for these documents: sql with the column count
\* and the consistency to 2 decimal places when there are at least 2 dict
\* documents, the first has a key and at least 0.7 of them have its key set;
\* object with "no consistent tabular structure detected" otherwise
FlatAnswerIsAsStated(docs, answer) ==
    LET dd == SafeDocs(docs)
        n == Len(dd)
        same == Cardinality({i \in 1..n : DOMAIN dd[i].kv = DOMAIN dd[1].kv})
    IN  IF n >= 2 /\ DOMAIN dd[1].kv # {} /\ 10 * same >= 7 * n
        THEN /\ answer.type = "sql"
             /\ answer.reason.text = "consistent flat rows (C cols, consistency=P)"
             /\ answer.reason.cols = Cardinality(DOMAIN dd[1].kv)
             /\ 2 * (100 * same - answer.reason.pct * n) <= n
             /\ 2 * (answer.reason.pct * n - 100 * same) < n
        ELSE answer = [type |-> "object",
                       reason |-> Reason("no consistent tabular structure detected", 0, 0, 0)]

\* C21 as stated: with no CSV fragment, no HTML table and no nested value the
\* answer is sql (with columns and consistency) or object "no consistent
\* tabular structure detected", by the count, key and consistency conditions.
C21_FlatDecision ==
    (ret # <<>> /\ NoTables(arg.fragments) /\ ~HasNested(arg.docs)) =>
        FlatAnswerIsAsStated(arg.docs, ret[1])

\* C21, amended: the same, for candidate lists that hold at least one dict.
C21_FlatDecisionOfDicts ==
    (ret # <<>> /\ NoTables(arg.fragments) /\ ~HasNested(arg.docs) /\ DictIdx(arg.docs) # {}) =>
        FlatAnswerIsAsStated(arg.docs, ret[1])

\* C21 witness (scenario A): two flat documents with the same two keys give sql,
\* 2 columns, consistency 1.00
C21_Witness ==
    /\ ret # <<>> /\ NoTables(arg.fragments)
    /\ Len(arg.docs) = 2
    /\ \A i \in 1..2 : arg.docs[i].isdict /\ DOMAIN arg.docs[i].kv = {KeyA, KeyB}
    /\ ~HasNested(arg.docs)
    /\ ret[1] = [type |-> "sql",
                 reason |-> Reason("consistent flat rows (C cols, consistency=P)", 0, 2, 100)]


-----------------------------------------------------------------------------
(* C22 *)

\* C22: for every field, with c the number of documents that hold it and each
\* occurrence counted in one class at most, the inferred type is the first
\* match of: object if an object occurs; array if an array occurs; date if
\* dates/c >= 0.6; integer if ints/c >= 0.8; decimal if floats/c >= 0.5 or
\* ((ints + floats)/c >= 0.8 and floats > 0); boolean if bools/c >= 0.8;
\* string; and the count returned is c.
C22_TypeByFirstMatch ==
    ret # <<>> =>
        /\ DOMAIN ret[1] = UNION {DOMAIN arg.docs[i].kv : i \in DictIdx(arg.docs)}
        /\ \A k \in DOMAIN ret[1] :
            LET occ == {i \in DictIdx(arg.docs) : k \in DOMAIN arg.docs[i].kv}
                c == Cardinality(occ)
                n(class) == Cardinality({i \in occ : TallyClass(arg.docs[i].kv[k]) = class})
                t == ret[1][k].type
            IN  /\ ret[1][k].count = c
                /\ n("object") + n("array") + n("date") + n("int") + n("float") + n("bool") <= c
                /\ t = CASE n("object") > 0 -> "object"
                         [] n("object") = 0 /\ n("array") > 0 -> "array"
                         [] OTHER ->
                            IF 10 * n("date") >= 6 * c THEN "date"
                            ELSE IF 10 * n("int") >= 8 * c THEN "integer"
                            ELSE IF \/ 10 * n("float") >= 5 * c
                                    \/ (10 * (n("int") + n("float")) >= 8 * c /\ n("float") > 0)
                                 THEN "decimal"
                            ELSE IF 10 * n("bool") >= 8 * c THEN "boolean"
                            ELSE "string"

\* C22 witness: "2.5" and a plain text, floats/c = 0.5 exactly, give decimal
C22_Witness ==
    /\ ret # <<>>
    /\ arg.docs = <<Dict([k \in {KeyA} |-> [ty |-> "str", rep |-> "2.5"]]),
                    Dict([k \in {KeyA} |-> StrA])>>
    /\ ret[1][KeyA].type = "decimal"
    /\ ret[1][KeyA].count = 2


-----------------------------------------------------------------------------
(* C23 *)

\* opening minus closing braces of text[a..j]
BraceDepth(text, a, j) ==
    Cardinality({p \in a..j : text[p] = "{"}) - Cardinality({p \in a..j : text[p] = "}"})

\* text[a..b] is a balanced span: b is the '}' that matches the '{' at a
IsBalancedSpan(text, a, b) ==
    /\ a < b /\ text[a] = "{" /\ text[b] = "}"
    /\ BraceDepth(text, a, b) = 0
    /\ \A j \in a..(b - 1) : BraceDepth(text, a, j) > 0

\* the balanced spans of text that lie in no other balanced span
MaximalSpans(text) ==
    LET all == {s \in (1..Len(text)) \X (1..Len(text)) : IsBalancedSpan(text, s[1], s[2])}
    IN  {s \in all : ~\E o \in all : o # s /\ o[1] <= s[1] /\ s[2] <= o[2]}

\* C23: the brace scan of a text returns, from left to right, exactly the
\* maximal balanced {...} spans of the text.
C23_MaximalBalancedSpans ==
    ret # <<>> =>
        LET spans == MaximalSpans(arg.text)
            nth(k) == CHOOSE s \in spans : Cardinality({o \in spans : o[1] < s[1]}) = k - 1
        IN  /\ Len(ret[1]) = Cardinality(spans)
            /\ \A k \in 1..Len(ret[1]) : ret[1][k] = SubSeq(arg.text, nth(k)[1], nth(k)[2])


-----------------------------------------------------------------------------
(* C24 *)

\* C24: for a text made of a header line with an alphabetic cell and data
\* lines, csv_fragments of the bundle holds a record for each data line with
\* as many cells as the header (here the line "1,3", whose second cell stands
\* under the header cell "b"), and none for the other data lines.
C24_CsvRecordPerDataLine ==
    (ret # <<>> /\ ret[1].op = "bundle" /\ arg.kind = "csv") =>
        LET recs == ret[1].value.csv_fragments
        IN  /\ Len(recs) >= 1
            /\ \A i \in 1..Len(recs) :
                  \E j \in 1..Len(recs[i]) : recs[i][j] = <<<<"b">>, <<"3">>>>


-----------------------------------------------------------------------------
(* C25 *)

\* the first row of the table is taken as its header row
HeaderTaken(table) ==
    Len(table) >= 2 /\ \E i \in 1..Len(table[1]) : HasLetter(table[1][i])

\* the record of a row under the positional headers col0..colN
PositionalRecord(row) == [j \in 1..Len(row) |-> <<ColName(j - 1), Strip(row[j])>>]

\* C25: for a table whose first row is not taken as a header and whose rows
\* all have the same width, html_tables holds one record per row, the first
\* row included, keyed by col0..colN.
C25_PositionalRecords ==
    (ret # <<>> /\ ret[1].op = "bundle" /\ arg.kind = "html"
     /\ ~HeaderTaken(arg.tables[1])
     /\ \A i \in 1..Len(arg.tables[1]) : Len(arg.tables[1][i]) = Len(arg.tables[1][1])) =>
        ret[1].value.html_tables =
            [i \in 1..Len(arg.tables[1]) |-> PositionalRecord(arg.tables[1][i])]


-----------------------------------------------------------------------------
(* C26 *)

\* C26: every key extract_kv_pairs returns is non-empty, at most 80 characters
\* long, and matches the safe-key pattern: letters, digits, '_', '-' and ' '
\* only, 60 characters at most.
C26_KvKeysSafe ==
    (ret # <<>> /\ ret[1].op = "kv") =>
        \A i \in 1..Len(ret[1].value) :
            LET key == ret[1].value[i][1]
            IN  /\ key # <<>>
                /\ Len(key) <= 80
                /\ Len(key) <= 60
                /\ \A j \in 1..Len(key) :
                      key[j] \in AsciiLetters \cup DigitChars \cup {"_", "-", " "}


-----------------------------------------------------------------------------
(* C27 *)

\* the evolve_schema call of this step was made for source id a
EvolvedFor(a) == last' # <<>> /\ last'[1].source_id = a /\ clock' = clock + 1

-----------------------------------------------------------------------------
(* C28 *)

\* the key set of the first dict of docs, {} when there is none
FirstKeySet(docs) == IF SafeDocs(docs) = <<>> THEN {} ELSE DOMAIN SafeDocs(docs)[1].kv

\* C28 as stated: without CSV fragments and HTML tables, the decision type is
\* the same for every ordering of the candidate documents.
C28_OrderIndependent ==
    Len(ret) = 2 => ret[2].answer.type = ret[1].type

\* C28, amended: without CSV fragments and HTML tables, two orderings of the
\* candidate documents whose first dict documents have the same key set get
\* the same answer.
C28_SameFirstKeysSameAnswer ==
    (Len(ret) = 2
     /\ FirstKeySet(Reordered(arg.docs, ret[2].order)) = FirstKeySet(arg.docs)) =>
        ret[2].answer = ret[1]

\* C28 witness: three documents with the key a and one with the key b are sql
\* in two different orders that both start with the key a
C28_Witness ==
    /\ Len(ret) = 2 /\ Len(arg.docs) = 4
    /\ \A i \in 1..4 : arg.docs[i].isdict
    /\ Cardinality({i \in 1..4 : DOMAIN arg.docs[i].kv = {KeyA}}) = 3
    /\ DOMAIN arg.docs[1].kv = {KeyA}
    /\ Reordered(arg.docs, ret[2].order) # arg.docs
    /\ DOMAIN arg.docs[ret[2].order[1]].kv = {KeyA}
    /\ ret[1].type = "sql" /\ ret[2].answer.type = "sql"

-----------------------------------------------------------------------------
(* C29 *)

\* the three ids of the records of an index, in order
IdsOf(records) ==
    [i \in 1..Len(records) |-> <<records[i].file_id, records[i].logical_id,
                                 records[i].instance_schema_id>>]

-----------------------------------------------------------------------------
(* C30 *)

\* C30 (as claimed): no fragment metadata that process_fragments returns has the
\* storage decision sql.
C30_NoFragmentIsSql ==
    (ret # <<>> /\ ~ret[1].raised) =>
        \A i \in 1..Len(ret[1].frag_list) : ret[1].frag_list[i].storage_decision.type # "sql"

KindRank(kind) ==
    CASE kind = "json" -> 1 [] kind = "csv" -> 2 [] kind = "html_table" -> 3
      [] kind = "kv" -> 4 [] kind = "raw" -> 5

\* C30: every fragment of the json, csv, html_table and kv groups is turned into at
\* most one row and is never decided sql, and apply_sql_ddl_and_insert is never
\* invoked, whether or not the call returns; the returned metadata carry the
\* fragment_index values 1..N in list order, with the kinds in the order json,
\* csv, html_table, kv, raw and one metadata entry per item of the bundle.
C30_GroupFragmentsNeverSql ==
    ret # <<>> =>
        /\ \A i \in 1..Len(ret[1].sinks) : ret[1].sinks[i] # "apply_sql_ddl_and_insert"
        /\ LET fl == ret[1].frag_list
           IN  /\ \A i \in 1..Len(fl) :
                     /\ fl[i].fragment_index = i
                     /\ fl[i].fragment_kind # "raw" =>
                          fl[i].rows_count <= 1 /\ fl[i].storage_decision.type # "sql"
               /\ \A i, j \in 1..Len(fl) :
                     i < j => KindRank(fl[i].fragment_kind) <= KindRank(fl[j].fragment_kind)
               /\ ~ret[1].raised =>
                     Len(fl) = Len(FragmentGroups(arg.fragments))
                               + (IF arg.fragments.raw_text # <<>> THEN 1 ELSE 0)

\* C30 witness: a returned list with a json, a csv, an html_table, a kv and the raw
\* fragment, where the kv pair gave one row and two rows of one table were decided
\* one by one.
C30_Witness ==
    /\ ret # <<>> /\ ~ret[1].raised
    /\ \A kind \in {"json", "csv", "html_table", "kv", "raw"} :
          \E i \in 1..Len(ret[1].frag_list) : ret[1].frag_list[i].fragment_kind = kind
    /\ \E i \in 1..Len(ret[1].frag_list) :
          /\ ret[1].frag_list[i].fragment_kind = "kv"
          /\ ret[1].frag_list[i].rows_count = 1
    /\ \E i, j \in 1..Len(ret[1].frag_list) :
          /\ i # j
          /\ ret[1].frag_list[i].fragment_kind = "html_table"
          /\ ret[1].frag_list[j].fragment_kind = "html_table"
          /\ ret[1].frag_list[i].sample_rows = ret[1].frag_list[j].sample_rows

====
